---- MODULE Spec2Model ----
(***************************************************************************)
(* Multi-provider price aggregation and failover engine.                   *)
(*                                                                         *)
(* The module models DataAggregator (services/aggregator.py) and the       *)
(* broker adapter IGIndexProvider (services/data_providers/ig_index.py).   *)
(* The specifications share one set of variables; among them:             *)
(*   Spec           DataAggregator.initialize / health_check / get_price   *)
(*   SpecBulk       one get_bulk_prices call (fan-out, broker section)     *)
(*   SpecBulkLock   concurrent get_bulk_prices calls and _ig_lock          *)
(*   SpecIG         concurrent callers of IGIndexProvider and its session  *)
(*   SpecDiscovery  IGIndexProvider._discover_and_enhance_symbol           *)
(*   SpecLookup     IGIndexProvider.get_price from its Directory lookup on *)
(* Strings are sequences of one-character strings, so that the substring,  *)
(* upper-casing and ordering rules of the code are computed, not assumed.  *)
(***************************************************************************)
EXTENDS Integers, Sequences, FiniteSets, TLC

VARIABLES
    _initialized,      \* DataAggregator._initialized
    _provider_ready,   \* DataAggregator._provider_ready
    _request_stats,    \* DataAggregator._request_stats
    _ig_lock,          \* DataAggregator._ig_lock: the bulk call holding it, or NoOwner
    gp,                \* the get_price calls made by the HTTP layer
    bulk,              \* the get_bulk_prices calls
    authenticated,     \* IGIndexProvider.authenticated
    ig_service,        \* IGIndexProvider.ig_service: "None" or "IGService"
    _lock,             \* IGIndexProvider._lock: the task holding it, or NoOwner
    stock_universe,    \* hedgefund_agent.stock_universe: the Symbol Directory
    ig_credentials,    \* settings.ig_username, ig_password and ig_api_key are all set
    ig_markets,        \* the broker's catalog: what its market search returns
    igt,               \* the tasks running inside the broker adapter
    finnhub,           \* FinnhubProvider: whether api_key is set, whether session exists
    readiness_log,     \* what the last observed step of initialize or health_check drew
    init_run,          \* the running DataAggregator.initialize: position, unfinished tasks
    hc_run,            \* the running DataAggregator.health_check: position, what was read
    startup,           \* the loading of app/main.py: its position, environment and error
    redis              \* CacheService: whether self.redis is bound, the running connect,
                       \* the SETEX awaited, and what the key-value store holds

vars == <<_initialized, _provider_ready, _request_stats, _ig_lock, gp, bulk,
          authenticated, ig_service, _lock, stock_universe, ig_credentials,
          ig_markets, igt, finnhub, readiness_log, init_run, hc_run, startup, redis>>

startVars == <<finnhub, readiness_log, init_run, hc_run, startup, redis>>

aggVars == <<_initialized, _provider_ready, _request_stats, _ig_lock, gp, bulk>>
igVars == <<authenticated, ig_service, _lock, stock_universe, ig_credentials,
            ig_markets, igt>>

-----------------------------------------------------------------------------
(* Bounds of the model.                                                    *)

\* get_price calls the HTTP layer makes in one run of Spec
MaxCalls == 1
\* concurrent get_bulk_prices calls in one run of SpecBulkLock
MaxBulk == 2

-----------------------------------------------------------------------------
(* Strings.                                                                *)

\* The characters of the model, in ascending code-point order.
Chars == <<"$", "=", "A", "B", "C", "D", "E", "F", "G", "H", "I", "J", "K",
           "L", "M", "N", "O", "P", "Q", "R", "S", "T", "U", "V", "W", "X",
           "Y", "Z", "^", "a", "b", "c", "d", "e", "f", "g", "h", "i", "j",
           "k", "l", "m", "n", "o", "p", "q", "r", "s", "t", "u", "v", "w",
           "x", "y", "z">>

LowerChars == <<"a", "b", "c", "d", "e", "f", "g", "h", "i", "j", "k", "l",
                "m", "n", "o", "p", "q", "r", "s", "t", "u", "v", "w", "x",
                "y", "z">>
UpperChars == <<"A", "B", "C", "D", "E", "F", "G", "H", "I", "J", "K", "L",
                "M", "N", "O", "P", "Q", "R", "S", "T", "U", "V", "W", "X",
                "Y", "Z">>

\* ord(c), up to an order-preserving renumbering
CharOrd(c) == CHOOSE i \in 1..Len(Chars) : Chars[i] = c

\* str.upper(), one character
UpperChar(c) ==
    IF \E i \in 1..Len(LowerChars) : LowerChars[i] = c
    THEN UpperChars[CHOOSE i \in 1..Len(LowerChars) : LowerChars[i] = c]
    ELSE c

\* str.upper()
Upper(s) == [i \in 1..Len(s) |-> UpperChar(s[i])]

\* str.replace(c, "") for a one-character c
RECURSIVE RemoveChar(_, _)
RemoveChar(s, c) ==
    IF s = <<>> THEN <<>>
    ELSE IF Head(s) = c THEN RemoveChar(Tail(s), c)
    ELSE <<Head(s)>> \o RemoveChar(Tail(s), c)

\* sub in s
IsSubstr(sub, s) ==
    \E i \in 0..(Len(s) - Len(sub)) :
        \A j \in 1..Len(sub) : s[i + j] = sub[j]

\* a < b for Python strings: lexicographic by code point
RECURSIVE StrLess(_, _)
StrLess(a, b) ==
    IF b = <<>> THEN FALSE
    ELSE IF a = <<>> THEN TRUE
    ELSE IF Head(a) = Head(b) THEN StrLess(Tail(a), Tail(b))
    ELSE CharOrd(Head(a)) < CharOrd(Head(b))

\* sorted(list(S)) for a set S of strings
RECURSIVE SortedList(_)
SortedList(S) ==
    IF S = {} THEN <<>>
    ELSE LET m == CHOOSE x \in S : \A y \in S \ {x} : StrLess(x, y)
         IN <<m>> \o SortedList(S \ {m})

\* set(xs) for a list xs
ToSet(xs) == {xs[i] : i \in 1..Len(xs)}

-----------------------------------------------------------------------------
(* Symbols, asset types and providers.                                     *)

BTC == <<"B", "T", "C">>
ETH == <<"E", "T", "H">>
SOL == <<"S", "O", "L">>
AVAX == <<"A", "V", "A", "X">>
DOT == <<"D", "O", "T">>
ADA == <<"A", "D", "A">>
XRP == <<"X", "R", "P">>
DOGE == <<"D", "O", "G", "E">>
MATIC == <<"M", "A", "T", "I", "C">>
LINK == <<"L", "I", "N", "K">>
WAI == <<"W", "A", "I">>
EURUSD == <<"E", "U", "R", "U", "S", "D">>
SPY == <<"S", "P", "Y">>
GOLD == <<"G", "O", "L", "D">>
AAPL == <<"A", "A", "P", "L">>

\* AssetType
AssetTypes == {"crypto", "forex", "index", "commodity", "equity"}

\* DataAggregator.providers
Providers == {"binance", "mexc", "ig_index", "finnhub", "fred"}

crypto_symbols == <<BTC, ETH, SOL, AVAX, DOT, ADA, XRP, DOGE, MATIC, LINK, WAI>>
forex_pairs == <<<<"U", "S", "D">>, <<"E", "U", "R">>, <<"G", "B", "P">>,
                 <<"J", "P", "Y">>, <<"C", "H", "F">>, <<"C", "A", "D">>,
                 <<"A", "U", "D">>, <<"N", "Z", "D">>>>
index_symbols == <<<<"S", "P", "X">>, SPY, <<"Q", "Q", "Q">>, <<"D", "J", "I">>,
                   <<"V", "I", "X">>, <<"N", "A", "S", "D", "A", "Q">>,
                   <<"F", "T", "S", "E">>, <<"D", "A", "X">>, <<"C", "A", "C">>,
                   <<"N", "I", "K", "K", "E", "I">>>>
commodity_symbols == <<GOLD, <<"S", "I", "L", "V", "E", "R">>, <<"O", "I", "L">>,
                       <<"W", "T", "I">>, <<"B", "R", "E", "N", "T">>,
                       <<"G", "A", "S">>, <<"W", "H", "E", "A", "T">>,
                       <<"C", "O", "R", "N">>>>

\* any(x in s for x in xs)
AnyIn(xs, s) == \E i \in 1..Len(xs) : IsSubstr(xs[i], s)

\* DataAggregator._detect_asset_type
_detect_asset_type(symbol) ==
    LET symbol_upper == RemoveChar(Upper(symbol), "$")
    IN IF AnyIn(crypto_symbols, symbol_upper) THEN "crypto"
       ELSE IF Len(symbol_upper) >= 6 /\ AnyIn(forex_pairs, symbol_upper) THEN "forex"
       ELSE IF AnyIn(index_symbols, symbol_upper) THEN "index"
       ELSE IF AnyIn(commodity_symbols, symbol_upper) THEN "commodity"
       ELSE "equity"

\* DataAggregator.provider_priority
provider_priority(asset_type) ==
    IF asset_type = "crypto" THEN <<"binance", "mexc">> ELSE <<"ig_index">>

\* [p for p in xs if ready[p]]
RECURSIVE FilterReady(_, _)
FilterReady(xs, ready) ==
    IF xs = <<>> THEN <<>>
    ELSE IF ready[Head(xs)] THEN <<Head(xs)>> \o FilterReady(Tail(xs), ready)
    ELSE FilterReady(Tail(xs), ready)

\* A routing without the fall-back to any ready price provider
_get_providers_for_symbol_ClassOnly(asset_type, ready) ==
    FilterReady(provider_priority(asset_type), ready)

\* DataAggregator._get_providers_for_symbol
_get_providers_for_symbol(asset_type, ready) ==
    LET available_providers == FilterReady(provider_priority(asset_type), ready)
    IN IF available_providers = <<>>
       THEN FilterReady(<<"binance", "mexc", "ig_index">>, ready)
       ELSE available_providers

-----------------------------------------------------------------------------
(* Values exchanged with the adapters.                                     *)

NoOwner == 0

\* Python's None
NoneVal == [kind |-> "None"]

\* app.models.PriceData, the fields routing reads
PriceData(symbol, price, source) ==
    [kind |-> "PriceData", symbol |-> symbol, price |-> price, source |-> source]

\* CacheService.__init__: self.redis is None; no connect is running and no
\* SETEX is on its way; the store, a server of its own, is taken to be empty
CacheService_init == [client |-> FALSE, connect |-> "idle", setex |-> NoneVal, store |-> {}]

\* Prices a venue may quote; floats are modelled by integers
Prices == {-1, 0, 7}

\* What a venue holds for a symbol when an adapter asks: a quote, nothing
\* (non-200 status or transport error, which the adapter turns into None),
\* or no answer within the aggregator's timeout.
Quotes == [kind : {"price"}, price : Prices] \cup {[kind |-> "none"], [kind |-> "hang"]}

\* MEXCProvider.mexc_tokens
mexc_tokens == {WAI, <<"E", "X", "A", "M", "P", "L", "E">>}

\* What `await asyncio.wait_for(provider.get_price(...), timeout=30.0)` gives the
\* aggregator: a value, TimeoutError, or another exception.
Returned(v) == [kind |-> "result", value |-> v]
TimeoutError == [kind |-> "TimeoutError"]
TypeError == [kind |-> "Exception", type |-> "TypeError"]

\* BinanceProvider.get_price
BinanceProvider_get_price(symbol, quote) ==
    IF quote.kind = "hang" THEN TimeoutError
    ELSE IF quote.kind = "price"
         THEN Returned(PriceData(symbol, quote.price, "binance"))
         ELSE Returned(NoneVal)

\* MEXCProvider._convert_symbol(symbol) is not None
MEXCProvider_is_supported(symbol) ==
    Upper(RemoveChar(symbol, "$")) \in mexc_tokens

\* MEXCProvider.get_price
MEXCProvider_get_price(symbol, quote) ==
    IF ~MEXCProvider_is_supported(symbol) THEN Returned(NoneVal)
    ELSE IF quote.kind = "hang" THEN TimeoutError
    ELSE IF quote.kind = "price"
         THEN Returned(PriceData(symbol, quote.price, "mexc"))
         ELSE Returned(NoneVal)

\* The parameters IGIndexProvider.get_price declares besides self
IGIndexProvider_get_price_params == {"ticker"}

\* Calling IGIndexProvider.get_price with keyword arguments kwargs: Python binds
\* the arguments when the call expression is evaluated, before any coroutine
\* runs, and raises TypeError for a keyword the signature does not declare.
IGIndexProvider_get_price_call(kwargs) ==
    IF kwargs \subseteq IGIndexProvider_get_price_params
    THEN [kind |-> "coroutine"]
    ELSE TypeError

\* A validation that accepts any record, whatever its price
IsValidResult_AnyRecord(result) ==
    result.kind = "PriceData"

\* `result and hasattr(result, 'price') and result.price > 0`
IsValidResult(result) ==
    result.kind = "PriceData" /\ result.price > 0

\* A loop body without the two except clauses: a raise or a timeout gets out
AttemptDisposition_NoHandlers(resp) ==
    IF resp.kind = "result"
    THEN IF resp.value.kind = "PriceData" /\ resp.value.price > 0
         THEN "return" ELSE "continue"
    ELSE "propagate"

\* A loop that ends with whatever the first provider attempted gave
AttemptDisposition_FirstAnswerEnds(resp) == "return"

\* What get_price does with the outcome of one provider attempt: return the
\* record, go on to the next provider, or let the exception out.
AttemptDisposition(resp) ==
    IF resp.kind = "result"
    THEN IF IsValidResult(resp.value) THEN "return" ELSE "continue"
    ELSE IF resp.kind = "TimeoutError" THEN "continue"
    ELSE "continue"

-----------------------------------------------------------------------------
(* DataAggregator.get_price.                                               *)
(* A call runs without interruption from one suspension point (an await on *)
(* an adapter) to the next.  Its record keeps, besides the locals of the   *)
(* coroutine, the log `tried` of the attempts it made.                     *)

\* A get_price that marks not-ready every provider whose attempt gave no
\* valid record
ReadinessAfterGetPrice_DemoteFailed(ready, call) ==
    [name \in DOMAIN ready |->
        ready[name]
        /\ ~\E i \in 1..Len(call.tried) :
               /\ call.tried[i].provider = name
               /\ ~(call.tried[i].response.kind = "result"
                    /\ IsValidResult(call.tried[i].response.value))]

\* _provider_ready after a run of get_price: lines 260-303 only read the map
\* (line 267); the handlers of lines 293-298 log and go on to the next provider
ReadinessAfterGetPrice(ready, call) == ready

IdleCall ==
    [pc |-> "idle", symbol |-> <<>>, ensure_session |-> TRUE, asset_type |-> "equity",
     providers |-> <<>>, i |-> 1, tried |-> <<>>, outcome |-> "none", result |-> NoneVal]

\* _request_stats[k] -= 1
Bump_Decrement(stats, k) == [stats EXCEPT ![k] = @ - 1]

\* _request_stats[k] += 1
Bump(stats, k) == [stats EXCEPT ![k] = @ + 1]

\* An increment that lands on the provider's request counter whatever k
BumpProvider_Requests(stats, p, k) == [stats EXCEPT !.provider_stats[p].requests = @ + 1]

\* _request_stats['provider_stats'][p][k] += 1
BumpProvider(stats, p, k) == [stats EXCEPT !.provider_stats[p][k] = @ + 1]

\* The adapter's answer to the aggregator for a call that reached the venue
AdapterResponse(provider_name, symbol, quote) ==
    IF provider_name = "binance" THEN BinanceProvider_get_price(symbol, quote)
    ELSE MEXCProvider_get_price(symbol, quote)

\* A loop that trusts the list built at the start of the call
_provider_ready_get_Listed(ready, provider_name) == TRUE

\* Line 268: `self._provider_ready.get(provider_name, False)`, read when the
\* loop reaches the provider
_provider_ready_get(ready, provider_name) == ready[provider_name]

\* The `for provider_name in providers` loop from index i on, up to the next
\* await or to the return.  igq is what the broker holds for the symbol at that
\* moment; it is only logged (field held of the attempt), since the call to
\* the broker adapter never reaches the broker.
RECURSIVE get_price_loop(_, _, _, _, _)
get_price_loop(call, i, ready, stats, igq) ==
    IF i > Len(call.providers)
    THEN [call |-> [call EXCEPT !.pc = "done", !.i = i, !.outcome = "returned",
                                !.result = NoneVal],
          stats |-> Bump(stats, "failed_requests")]
    ELSE LET provider_name == call.providers[i]
         IN IF ~_provider_ready_get(ready, provider_name)
            THEN get_price_loop(call, i + 1, ready, stats, igq)
            ELSE LET stats1 == BumpProvider(stats, provider_name, "requests")
                 IN IF provider_name = "ig_index"
                    THEN LET resp == IGIndexProvider_get_price_call({"ticker", "ensure_session"})
                             call1 == [call EXCEPT !.tried = Append(@,
                                          [provider |-> provider_name, held |-> igq,
                                           response |-> resp])]
                         IN IF resp.kind = "coroutine"
                            THEN [call |-> [call1 EXCEPT !.pc = "awaiting", !.i = i],
                                  stats |-> stats1]
                            ELSE IF AttemptDisposition(resp) = "continue"
                            THEN get_price_loop(call1, i + 1, ready, stats1, igq)
                            ELSE [call |-> [call1 EXCEPT !.pc = "done", !.i = i,
                                                         !.outcome = "raised"],
                                  stats |-> stats1]
                    ELSE [call |-> [call EXCEPT !.pc = "awaiting", !.i = i],
                          stats |-> stats1]

\* get_price from its first line to its first await (or to its return)
get_price_begin(symbol, ensure_session, ready, stats, igq) ==
    LET asset_type == _detect_asset_type(symbol)
        call == [IdleCall EXCEPT
                    !.pc = "running", !.symbol = symbol, !.ensure_session = ensure_session,
                    !.asset_type = asset_type,
                    !.providers = _get_providers_for_symbol(asset_type, ready)]
    IN get_price_loop(call, 1, ready, Bump(stats, "total_requests"), igq)

\* get_price from the answer to its pending await to the next await (or return)
get_price_resume(call, quote, ready, stats, igq) ==
    LET provider_name == call.providers[call.i]
        resp == AdapterResponse(provider_name, call.symbol, quote)
        call1 == [call EXCEPT !.tried = Append(@,
                     [provider |-> provider_name, held |-> NoneVal, response |-> resp])]
        disposition == AttemptDisposition(resp)
    IN IF disposition = "return"
       THEN [call |-> [call1 EXCEPT !.pc = "done", !.outcome = "returned",
                                    !.result = resp.value],
             stats |-> BumpProvider(Bump(stats, "successful_requests"),
                                    provider_name, "successes")]
       ELSE IF disposition = "continue"
       THEN get_price_loop(call1, call.i + 1, ready, stats, igq)
       ELSE [call |-> [call1 EXCEPT !.pc = "done", !.outcome = "raised"],
             stats |-> stats]

-----------------------------------------------------------------------------
(* IGIndexProvider: the parts the aggregator's readiness tracking reads.   *)

\* IGIndexProvider.initialize between acquiring and releasing _lock.
\* session_ok: ig_service.create_session() returned without raising.
IGIndexProvider_initialize(auth, svc, creds, session_ok) ==
    IF auth THEN [authenticated |-> TRUE, ig_service |-> svc, ret |-> TRUE]
    ELSE IF ~creds THEN [authenticated |-> auth, ig_service |-> svc, ret |-> FALSE]
    ELSE IF session_ok
         THEN [authenticated |-> TRUE, ig_service |-> "IGService", ret |-> TRUE]
         ELSE [authenticated |-> FALSE, ig_service |-> "None", ret |-> FALSE]

\* IGIndexProvider.get_price called as get_price(ticker): line 285 reads the
\* name ensure_session, which is neither a parameter nor a global; the
\* NameError is raised inside the try and the handler of line 338 returns None.
IGIndexProvider_get_price_body == NoneVal

\* A health_check that tests only the database
IGIndexProvider_health_check_DbOnly(auth, db_ok) == db_ok

\* IGIndexProvider.health_check
IGIndexProvider_health_check(auth, db_ok) == auth /\ db_ok

-----------------------------------------------------------------------------
(* DataAggregator.initialize and health_check.  Both suspend at a gather   *)
(* of one task per provider (lines 69 and 210); while one is suspended the *)
(* tasks and every other request of the service run.  A step below is what *)
(* runs between two suspensions.  An await on an outside service that is   *)
(* followed by no read or write of the model's state is joined to the step *)
(* after it.                                                               *)

ZeroStats ==
    [total_requests |-> 0, successful_requests |-> 0, failed_requests |-> 0,
     provider_stats |-> [p \in Providers |-> [requests |-> 0, successes |-> 0]]]

\* DataAggregator._test_price_provider for the broker adapter
_test_price_provider_ig == IsValidResult(IGIndexProvider_get_price_body)

\* FinnhubProvider.initialize: False without a key; otherwise the session is
\* created and True is returned
FinnhubProvider_initialize(api_key) == api_key

\* FinnhubProvider.health_check.  status_200: the market-status request
\* answered 200 in time.
FinnhubProvider_health_check(api_key, session, status_200) ==
    api_key /\ session /\ status_200

\* An _initialize_provider that marks every adapter ready
_initialize_provider_AlwaysReady(name, passed, ig_ret, auth_after, db_ok, api_key) == TRUE

\* DataAggregator._initialize_provider: whether the provider ends ready.
\* passed[name]: the adapter's initialize did not return False, its health_check
\* returned true and its functional test returned valid data, all in time.
_initialize_provider(name, passed, ig_ret, auth_after, db_ok, api_key) ==
    IF name = "ig_index"
    THEN ig_ret /\ IGIndexProvider_health_check(auth_after, db_ok)
         /\ _test_price_provider_ig
    ELSE IF name = "finnhub"
    THEN FinnhubProvider_initialize(api_key) /\ passed[name]
    ELSE passed[name]

\* No step of initialize or health_check has been observed
NoLog == [op |-> "none"]

\* The providers that have passed the whole of _initialize_provider in an
\* initialize, so far, where that is what readiness_log keeps
SelfTested == IF readiness_log.op = "selftest" THEN readiness_log.selftest ELSE {}

\* No initialize is running
IdleInit == [pc |-> "idle", pending |-> {}, ig |-> "none"]

\* No health_check is running
IdleCheck == [pc |-> "idle", news |-> FALSE, ig |-> "pending"]

\* The holder of IGIndexProvider._lock when it is the task that
\* DataAggregator.initialize made for the broker adapter
InitializeTask == -1

\* IGIndexProvider.initialize from line 33 to its first suspension or its
\* return, the lock being free: an authenticated adapter returns True, one
\* without credentials returns False, otherwise the IGService is built and
\* create_session is awaited on a worker thread with _lock held
IGIndexProvider_initialize_enter(auth, svc, creds) ==
    IF auth THEN [ig_service |-> svc, stage |-> "returned_true"]
    ELSE IF ~creds THEN [ig_service |-> svc, stage |-> "returned_false"]
    ELSE [ig_service |-> "IGService", stage |-> "create_session"]

\* Lines 66-69 of initialize: the coroutines are made and the call suspends at
\* the gather; none of them has run.  Calls of initialize are taken one at a
\* time; nothing in the code refuses a call on an initialized aggregator.
DataAggregator_initialize_begin(log) ==
    /\ init_run.pc = "idle"
    /\ init_run' = [IdleInit EXCEPT !.pc = "created"]
    /\ readiness_log' = log
    /\ UNCHANGED <<finnhub, hc_run, startup, redis>>
    /\ UNCHANGED aggVars
    /\ UNCHANGED igVars

\* FredService.get_series_data (fred_service.py 21-26): line 23 calls the
\* coroutine function CacheService.get without awaiting it; the coroutine
\* object it gets is truthy and is what the method returns
FredService_get_series_data == [kind |-> "coroutine"]

\* DataAggregator._test_macro_provider, line 124: the result must be a dict
\* that holds a latest_value
_test_macro_provider(result) == result.kind = "dict" /\ result.latest_value

\* The first step of the five tasks, one after the other in one turn of the
\* event loop.  The exchange adapters reach their first await.  The broker
\* adapter's initialize runs to create_session, or returns: False ends the
\* task, True takes it to the await of its health_check.  The news adapter
\* with a key opens its session (line 72).  The macro adapter has no
\* initialize and no health_check and its test is synchronous: its task ends
\* here.  No other task of the broker adapter exists where the aggregator is
\* modelled with its initialize, so _lock is free.
DataAggregator_initialize_tasks_start(log) ==
    LET ig == IGIndexProvider_initialize_enter(authenticated, ig_service, ig_credentials)
    IN /\ init_run.pc = "created"
       /\ ig_service' = ig.ig_service
       /\ _lock' = IF ig.stage = "create_session" THEN InitializeTask ELSE _lock
       /\ finnhub' = [finnhub EXCEPT !.session = @ \/ FinnhubProvider_initialize(finnhub.api_key)]
       /\ _provider_ready' =
            [_provider_ready EXCEPT
               !["fred"] = @ \/ _initialize_provider(
                                    "fred",
                                    [name \in {"fred"} |->
                                        _test_macro_provider(FredService_get_series_data)],
                                    FALSE, FALSE, FALSE, finnhub.api_key)]
       /\ init_run' =
            [pc |-> "started",
             pending |-> {"binance", "mexc"}
                         \cup (IF FinnhubProvider_initialize(finnhub.api_key)
                               THEN {"finnhub"} ELSE {})
                         \cup (IF ig.stage # "returned_false" THEN {"ig_index"} ELSE {}),
             ig |-> IF ig.stage = "returned_true" THEN "health_check"
                    ELSE IF ig.stage = "returned_false" THEN "none"
                    ELSE ig.stage]
       /\ readiness_log' = log
       /\ UNCHANGED <<_initialized, _request_stats, _ig_lock, gp, bulk, authenticated,
                      stock_universe, ig_credentials, ig_markets, igt, hc_run, startup,
                      redis>>

\* Lines 50-60 of IGIndexProvider.initialize in the broker task, before the
\* 60 s have passed: create_session answers (session_ok) or raises,
\* `authenticated` is written and _lock is released.  A False ends the task
\* (line 93); on True it goes on to `await provider.health_check()` (line 98)
\* and is suspended at the database check.
DataAggregator_initialize_ig_session(session_ok, log) ==
    LET r == IGIndexProvider_initialize(authenticated, ig_service, ig_credentials,
                                        session_ok)
    IN /\ init_run.pc = "started"
       /\ "ig_index" \in init_run.pending
       /\ init_run.ig = "create_session"
       /\ authenticated' = r.authenticated
       /\ ig_service' = r.ig_service
       /\ _lock' = NoOwner
       /\ init_run' = IF r.ret THEN [init_run EXCEPT !.ig = "health_check"]
                      ELSE [init_run EXCEPT !.pending = @ \ {"ig_index"}, !.ig = "none"]
       /\ readiness_log' = log
       /\ UNCHANGED <<_initialized, _provider_ready, _request_stats, _ig_lock, gp, bulk,
                      stock_universe, ig_credentials, ig_markets, igt, finnhub, hc_run,
                      startup, redis>>

\* Lines 378-379 of IGIndexProvider.health_check in the broker task: the
\* database check answers and `authenticated` is read.  An unhealthy adapter
\* ends the task (line 100); a healthy one takes it into the wait_for of
\* _test_price_provider (line 147).
DataAggregator_initialize_ig_health(db_ok, log) ==
    /\ init_run.pc = "started"
    /\ "ig_index" \in init_run.pending
    /\ init_run.ig = "health_check"
    /\ init_run' = IF IGIndexProvider_health_check(authenticated, db_ok)
                   THEN [init_run EXCEPT !.ig = "self_test"]
                   ELSE [init_run EXCEPT !.pending = @ \ {"ig_index"}, !.ig = "none"]
    /\ readiness_log' = log
    /\ UNCHANGED <<finnhub, hc_run, startup, redis>>
    /\ UNCHANGED aggVars
    /\ UNCHANGED igVars

\* Whether the task of a provider that ends at line 109 has passed the whole
\* self-test; the broker task gets there with its initialize and its
\* health_check passed
InitializeTaskResult(name, passed) ==
    _initialize_provider(name, [n \in {name} |-> passed], TRUE, TRUE, TRUE,
                         finnhub.api_key)

\* The task of one provider ends (lines 89-116): its initialize, health_check
\* and functional test have answered (passed: all three well), or one of them
\* raised.  The broker task ends here from the wait_for of its functional
\* test.  The 60 s of line 69 may have passed (late): a task that the timeout
\* cancelled while it was suspended in the wait_for of its test (lines 147,
\* 170) with the adapter's answer already in takes the answer, for wait_for
\* returns the result of a finished call instead of raising CancelledError,
\* and goes on to line 110.  It may be the first task to run after the
\* timeout, before any task has ended cancelled, and the only one: the
\* TimeoutError of line 70 is then raised with no task cancelled.
DataAggregator_initialize_task_done(name, passed, late, log) ==
    /\ init_run.pc \in {"started", "cancelling"}
    /\ init_run.pc = "cancelling" => late
    /\ name \in init_run.pending
    /\ name = "ig_index" => init_run.ig = "self_test"
    /\ _provider_ready' =
         [_provider_ready EXCEPT ![name] = @ \/ InitializeTaskResult(name, passed)]
    /\ init_run' = [init_run EXCEPT !.pc = IF late THEN "cancelling" ELSE @,
                                    !.pending = @ \ {name},
                                    !.ig = IF name = "ig_index" THEN "none" ELSE @]
    /\ readiness_log' = log
    /\ UNCHANGED <<_initialized, _request_stats, _ig_lock, gp, bulk, authenticated,
                   ig_service, _lock, stock_universe, ig_credentials, ig_markets, igt,
                   finnhub, hc_run, startup, redis>>

\* The 60 s of line 69 have passed (with this step, or before it) and wait_for
\* has cancelled the gather: the
\* task of one provider that was still running takes its CancelledError, in a
\* callback of its own.  The handler of line 115 catches Exception and lets it
\* through, so no ready flag is written.  A broker task cancelled in
\* create_session leaves the IGService object, not authenticated, and its
\* `async with` (ig_index.py 33) releases _lock, while the worker thread goes
\* on creating the session; cancelled later, it leaves the adapter as its
\* initialize left it.  initialize has not resumed.  Each task is suspended
\* at an await of its own depth, so the callbacks of the cancelled tasks are
\* taken in any order.
DataAggregator_initialize_task_cancelled(name, log) ==
    /\ init_run.pc \in {"started", "cancelling"}
    /\ name \in init_run.pending
    /\ _lock' = IF name = "ig_index" /\ init_run.ig = "create_session"
                THEN NoOwner ELSE _lock
    /\ init_run' = [init_run EXCEPT !.pc = "cancelling",
                                    !.pending = @ \ {name},
                                    !.ig = IF name = "ig_index" THEN "none" ELSE @]
    /\ readiness_log' = log
    /\ UNCHANGED <<_initialized, _provider_ready, _request_stats, _ig_lock, gp, bulk,
                   authenticated, ig_service, stock_universe, ig_credentials, ig_markets,
                   igt, finnhub, hc_run, startup, redis>>

\* Lines 69-73: initialize resumes once every task has ended or has been
\* cancelled, in a callback later than the last of them, and sets _initialized
DataAggregator_initialize_return(log) ==
    /\ init_run.pc \in {"started", "cancelling"}
    /\ init_run.pending = {}
    /\ _initialized' = TRUE
    /\ init_run' = IdleInit
    /\ readiness_log' = log
    /\ UNCHANGED <<_provider_ready, _request_stats, _ig_lock, gp, bulk, authenticated,
                   ig_service, _lock, stock_universe, ig_credentials, ig_markets, igt,
                   finnhub, hc_run, startup, redis>>

\* DataAggregator.initialize, a step of it or of one of its tasks
Initialize ==
    \/ DataAggregator_initialize_begin(readiness_log)
    \/ DataAggregator_initialize_tasks_start(readiness_log)
    \/ \E session_ok \in BOOLEAN :
         DataAggregator_initialize_ig_session(session_ok, readiness_log)
    \/ \E db_ok \in BOOLEAN : DataAggregator_initialize_ig_health(db_ok, readiness_log)
    \/ \E name \in Providers, passed \in BOOLEAN, late \in BOOLEAN :
         DataAggregator_initialize_task_done(name, passed, late, readiness_log)
    \/ \E name \in Providers :
         DataAggregator_initialize_task_cancelled(name, readiness_log)
    \/ DataAggregator_initialize_return(readiness_log)

\* The tasks the timeout has cancelled in the running initialize, and those
\* that ended by themselves after the timeout, where readiness_log keeps them
Cancelled ==
    IF readiness_log.op \in {"initialize_cancel", "initialize_task"}
    THEN readiness_log.cancelled ELSE {}

Late ==
    IF readiness_log.op \in {"initialize_cancel", "initialize_task"}
    THEN readiness_log.late ELSE {}

\* DataAggregator.initialize, what each step drew being kept, and whether
\* the aggregator had been initialized before (the call is a repeated one)
InitializeObserved ==
    \/ DataAggregator_initialize_begin(
           [op |-> "initialize_begin", initialized |-> _initialized])
    \/ DataAggregator_initialize_tasks_start(
           [op |-> "initialize_task", initialized |-> _initialized, name |-> "fred",
            passed |-> _test_macro_provider(FredService_get_series_data),
            cancelled |-> {}, late |-> {}])
    \/ \E session_ok \in BOOLEAN :
         DataAggregator_initialize_ig_session(session_ok,
             [op |-> "initialize_session", initialized |-> _initialized,
              session_ok |-> session_ok])
    \/ \E db_ok \in BOOLEAN :
         DataAggregator_initialize_ig_health(db_ok,
             [op |-> "initialize_health", initialized |-> _initialized,
              auth |-> authenticated, db_ok |-> db_ok])
    \/ \E name \in Providers, passed \in BOOLEAN, late \in BOOLEAN :
         DataAggregator_initialize_task_done(name, passed, late,
             [op |-> "initialize_task", initialized |-> _initialized, name |-> name,
              passed |-> passed, cancelled |-> Cancelled,
              late |-> Late \cup (IF late THEN {name} ELSE {})])
    \/ \E name \in Providers :
         DataAggregator_initialize_task_cancelled(name,
             [op |-> "initialize_cancel", initialized |-> _initialized,
              cancelled |-> Cancelled \cup {name}, late |-> Late])
    \/ DataAggregator_initialize_return(
           [op |-> "initialize", initialized |-> _initialized,
            timed_out |-> init_run.pc = "cancelling", cancelled |-> Cancelled,
            late |-> Late])

\* DataAggregator.initialize, the providers that have passed the whole
\* self-test being kept
InitializeSelfTested ==
    \/ DataAggregator_initialize_begin(readiness_log)
    \/ DataAggregator_initialize_tasks_start(
           [op |-> "selftest",
            selftest |-> SelfTested
                         \cup (IF _test_macro_provider(FredService_get_series_data)
                               THEN {"fred"} ELSE {})])
    \/ \E session_ok \in BOOLEAN :
         DataAggregator_initialize_ig_session(session_ok, readiness_log)
    \/ \E db_ok \in BOOLEAN : DataAggregator_initialize_ig_health(db_ok, readiness_log)
    \/ \E name \in Providers, passed \in BOOLEAN, late \in BOOLEAN :
         DataAggregator_initialize_task_done(name, passed, late,
             [op |-> "selftest",
              selftest |-> SelfTested
                           \cup (IF InitializeTaskResult(name, passed)
                                 THEN {name} ELSE {})])
    \/ \E name \in Providers :
         DataAggregator_initialize_task_cancelled(name, readiness_log)
    \/ DataAggregator_initialize_return(readiness_log)

\* A health_check that reports every adapter healthy
health_check_results_AllHealthy(probe, ig, timed_out, news) ==
    [name \in Providers |-> TRUE]

\* A health_check whose aggregate timeout keeps the answers that had come in
health_check_results_KeepFinished(probe, ig, timed_out, news) ==
    [name \in Providers |->
        IF name = "fred" THEN ~timed_out
        ELSE IF name = "ig_index" THEN ig = "healthy"
        ELSE IF name = "finnhub" THEN news /\ probe[name]
        ELSE probe[name]]

\* DataAggregator.health_check: the map it returns.
\* probe[name]: the service behind the adapter answered its health_check well
\* within the 10 s; ig: what the broker adapter's health_check returned
\* ("pending" while it has not); news: the news adapter's health_check found
\* its key and its session; timed_out: the 30 s aggregate timeout fired.
health_check_results(probe, ig, timed_out, news) ==
    [name \in Providers |->
        IF timed_out THEN FALSE
        ELSE IF name = "fred" THEN TRUE
        ELSE IF name = "ig_index" THEN ig = "healthy"
        ELSE IF name = "finnhub" THEN news /\ probe[name]
        ELSE probe[name]]

\* The outcomes a health_check may meet at the end of its gather.  probe is
\* what the exchanges and the news service answer; under the aggregate
\* timeout (timed_out) either none of them had answered well or all of them
\* had, and the answers are dropped.
ProbeOutcomes ==
    [timed_out : {FALSE}, probe : [{"binance", "mexc", "finnhub"} -> BOOLEAN]]
    \cup [timed_out : {TRUE},
          probe : {[name \in {"binance", "mexc", "finnhub"} |-> v] : v \in BOOLEAN}]

\* A health_check that probes whether or not initialize has ended
health_check_refused_Never(initialized) == FALSE

\* Line 193: `if not self._initialized`, the early return of health_check
health_check_refused(initialized) == ~initialized

\* The map a health_check suspended at its gather returns when it resumes
\* with outcome o
health_check_returned(o) ==
    health_check_results(o.probe, hc_run.ig, o.timed_out, hc_run.news)

\* Lines 193-210 of health_check: before initialize has ended the map of
\* False is returned at once; otherwise the probes are made and the call
\* suspends at the gather.  Calls of health_check are taken one at a time.
DataAggregator_health_check_begin(log) ==
    /\ hc_run.pc = "idle"
    /\ hc_run' = IF health_check_refused(_initialized) THEN hc_run
                 ELSE [IdleCheck EXCEPT !.pc = "created"]
    /\ readiness_log' = log
    /\ UNCHANGED <<finnhub, init_run, startup, redis>>
    /\ UNCHANGED aggVars
    /\ UNCHANGED igVars

\* The first step of the probes, in one turn of the event loop: the news
\* adapter's health_check reads its key and session (line 93) and the others
\* reach their first await
DataAggregator_health_check_probes_start(log) ==
    /\ hc_run.pc = "created"
    /\ hc_run' = [hc_run EXCEPT
                     !.pc = "probing",
                     !.news = FinnhubProvider_health_check(finnhub.api_key, finnhub.session,
                                                           TRUE)]
    /\ readiness_log' = log
    /\ UNCHANGED <<finnhub, init_run, startup, redis>>
    /\ UNCHANGED aggVars
    /\ UNCHANGED igVars

\* Lines 378-379 of IGIndexProvider.health_check: the database check answers
\* and `authenticated` is read
DataAggregator_health_check_ig_probe(db_ok, log) ==
    /\ hc_run.pc = "probing"
    /\ hc_run.ig = "pending"
    /\ hc_run' = [hc_run EXCEPT
                     !.ig = IF IGIndexProvider_health_check(authenticated, db_ok)
                            THEN "healthy" ELSE "unhealthy"]
    /\ readiness_log' = log
    /\ UNCHANGED <<finnhub, init_run, startup, redis>>
    /\ UNCHANGED aggVars
    /\ UNCHANGED igVars

\* Lines 210-240: the gather ends with every probe answered, or the 30 s pass;
\* the ready flags are written from the map, which is returned
DataAggregator_health_check_return(o, log) ==
    /\ hc_run.pc = "probing"
    /\ hc_run.ig # "pending" \/ o.timed_out
    /\ _provider_ready' = [name \in Providers |-> health_check_returned(o)[name]]
    /\ hc_run' = IdleCheck
    /\ readiness_log' = log
    /\ UNCHANGED <<_initialized, _request_stats, _ig_lock, gp, bulk, finnhub, init_run,
                   startup, redis>>
    /\ UNCHANGED igVars

\* DataAggregator.health_check, a step of it or of one of its probes
HealthCheck ==
    \/ DataAggregator_health_check_begin(readiness_log)
    \/ DataAggregator_health_check_probes_start(readiness_log)
    \/ \E db_ok \in BOOLEAN : DataAggregator_health_check_ig_probe(db_ok, readiness_log)
    \/ \E o \in ProbeOutcomes : DataAggregator_health_check_return(o, readiness_log)

\* DataAggregator.health_check, what each step drew and returned being kept
HealthCheckObserved ==
    \/ DataAggregator_health_check_begin(
           IF health_check_refused(_initialized)
           THEN [op |-> "health_check", initialized |-> _initialized,
                 returned |-> [name \in Providers |-> FALSE]]
           ELSE [op |-> "health_check_begin", initialized |-> _initialized])
    \/ DataAggregator_health_check_probes_start(
           [op |-> "health_probes", initialized |-> _initialized])
    \/ \E db_ok \in BOOLEAN :
         DataAggregator_health_check_ig_probe(db_ok,
             [op |-> "health_probe", auth |-> authenticated, db_ok |-> db_ok])
    \/ \E o \in ProbeOutcomes :
         DataAggregator_health_check_return(o,
             [op |-> "health_check", initialized |-> TRUE,
              before |-> _provider_ready, outcome |-> o, ig |-> hc_run.ig,
              news |-> hc_run.news, returned |-> health_check_returned(o)])

\* app/main.py lines 40-43: the lifespan of the application awaits
\* aggregator.initialize() once, at start-up; nothing else in the service
\* calls it.  The requests of the service run beside it.
LifespanInitialize == ~_initialized /\ Initialize

\* The service is up: main.py has loaded and the aggregator is constructed
Serving == [pc |-> "serving"]

\* The part of a state the aggregator's start-up leaves, the news adapter
\* holding a key
ServiceUp(session) ==
    /\ finnhub = [api_key |-> TRUE, session |-> session]
    /\ readiness_log = NoLog
    /\ init_run = IdleInit
    /\ hc_run = IdleCheck
    /\ startup = Serving
    /\ redis = CacheService_init

-----------------------------------------------------------------------------
(* Spec: the aggregator serving single-price requests.                     *)

\* The symbols requested in Spec: a lower-case '$'-prefixed crypto ticker that
\* MEXC does not list, a crypto ticker it lists, and an equity.
PriceSymbols == {<<"$", "b", "t", "c">>, WAI, AAPL}

\* What the broker may hold for a symbol
BrokerHoldings == {[kind |-> "price", price |-> 7], [kind |-> "none"]}

CallIds == 1..MaxCalls

\* The HTTP layer calls aggregator.get_price(symbol)
GpCall(k) ==
    /\ gp[k].pc = "idle"
    /\ \E symbol \in PriceSymbols, igq \in BrokerHoldings :
         LET r == get_price_begin(symbol, TRUE, _provider_ready, _request_stats, igq)
         IN /\ gp' = [gp EXCEPT ![k] = r.call]
            /\ _request_stats' = r.stats
            /\ _provider_ready' = ReadinessAfterGetPrice(_provider_ready, r.call)
    /\ UNCHANGED <<_initialized, _ig_lock, bulk>>
    /\ UNCHANGED igVars
    /\ UNCHANGED startVars

\* Whether the loop of a suspended call still has the broker adapter ahead
BrokerAhead(call) ==
    \E j \in (call.i + 1)..Len(call.providers) : call.providers[j] = "ig_index"

\* The adapter a call awaits answers (or the 30 s timeout fires)
GpRespond(k) ==
    /\ gp[k].pc = "awaiting"
    /\ \E quote \in Quotes :
       \E igq \in IF BrokerAhead(gp[k]) THEN BrokerHoldings ELSE {[kind |-> "none"]} :
         LET r == get_price_resume(gp[k], quote, _provider_ready, _request_stats, igq)
         IN /\ gp' = [gp EXCEPT ![k] = r.call]
            /\ _request_stats' = r.stats
            /\ _provider_ready' = ReadinessAfterGetPrice(_provider_ready, r.call)
    /\ UNCHANGED <<_initialized, _ig_lock, bulk>>
    /\ UNCHANGED igVars
    /\ UNCHANGED startVars

Init ==
    /\ _initialized = FALSE
    /\ _provider_ready = [name \in Providers |-> FALSE]
    /\ _request_stats = ZeroStats
    /\ _ig_lock = NoOwner
    /\ gp = [k \in CallIds |-> IdleCall]
    /\ bulk = <<>>
    /\ authenticated = FALSE
    /\ ig_service = "None"
    /\ _lock = NoOwner
    /\ stock_universe = {}
    /\ ig_credentials \in BOOLEAN
    /\ ig_markets = <<>>
    /\ igt = <<>>
    /\ ServiceUp(FALSE)

Next ==
    \/ LifespanInitialize
    \/ HealthCheck
    \/ \E k \in CallIds : GpCall(k)
    \/ \E k \in CallIds : GpRespond(k)

Spec == Init /\ [][Next]_vars

-----------------------------------------------------------------------------
(* DataAggregator.get_bulk_prices.                                         *)

\* The parameters IGIndexProvider.initialize declares besides self
IGIndexProvider_initialize_params == {}

\* Calling IGIndexProvider.initialize with keyword arguments kwargs
IGIndexProvider_initialize_call(kwargs) ==
    IF kwargs \subseteq IGIndexProvider_initialize_params
    THEN [kind |-> "coroutine"]
    ELSE TypeError

\* [x for x in xs if P(x)]
RECURSIVE SelectSeq2(_, _)
SelectSeq2(xs, S) ==
    IF xs = <<>> THEN <<>>
    ELSE IF Head(xs) \in S THEN <<Head(xs)>> \o SelectSeq2(Tail(xs), S)
    ELSE SelectSeq2(Tail(xs), S)

\* Lines 336-343: whether a symbol goes to ig_symbols
RoutedToIG(symbol, ready) ==
    LET provider_list == _get_providers_for_symbol(_detect_asset_type(symbol), ready)
    IN provider_list # <<>> /\ provider_list[1] = "ig_index"

\* Line 350: `tasks = [self.get_price(symbol) for symbol in other_symbols]`:
\* coroutine objects, none of which has run a line yet
RECURSIVE CreateTasks(_)
CreateTasks(syms) ==
    IF syms = <<>> THEN <<>>
    ELSE <<[IdleCall EXCEPT !.pc = "not_started", !.symbol = Head(syms)]>>
         \o CreateTasks(Tail(syms))

\* The tasks gather made of the coroutines take their first step, one after
\* the other in the order of the list: each runs get_price from line 261 to
\* its first await, with the readiness and the statistics of that moment.
RECURSIVE StartTasks(_, _, _)
StartTasks(syms, ready, stats) ==
    IF syms = <<>> THEN [tasks |-> <<>>, stats |-> stats]
    ELSE LET first == get_price_begin(Head(syms), TRUE, ready, stats, [kind |-> "none"])
             rest == StartTasks(Tail(syms), ready, first.stats)
         IN [tasks |-> <<first.call>> \o rest.tasks, stats |-> rest.stats]

\* Line 352: `[p for p in results if isinstance(p, PriceData)]`
RECURSIVE GatheredPrices(_)
GatheredPrices(tasks) ==
    IF tasks = <<>> THEN <<>>
    ELSE IF Head(tasks).outcome = "returned" /\ Head(tasks).result.kind = "PriceData"
         THEN <<Head(tasks).result>> \o GatheredPrices(Tail(tasks))
         ELSE GatheredPrices(Tail(tasks))

\* Lines 384-396: the response compiled from all_prices
RECURSIVE DataFor(_, _)
DataFor(unique_symbols, all_prices) ==
    IF unique_symbols = <<>> THEN <<>>
    ELSE LET hits == {i \in 1..Len(all_prices) : all_prices[i].symbol = Head(unique_symbols)}
         IN IF hits = {} THEN DataFor(Tail(unique_symbols), all_prices)
            ELSE <<all_prices[CHOOSE i \in hits : \A j \in hits : j <= i]>>
                 \o DataFor(Tail(unique_symbols), all_prices)

CompileResponse_AllFailed(unique_symbols, all_prices) ==
    [data |-> DataFor(unique_symbols, all_prices), failed_symbols |-> unique_symbols]

CompileResponse(unique_symbols, all_prices) ==
    LET successful_symbols == {all_prices[i].symbol : i \in 1..Len(all_prices)}
    IN [data |-> DataFor(unique_symbols, all_prices),
        failed_symbols |-> SelectSeq2(unique_symbols, ToSet(unique_symbols) \ successful_symbols)]

\* A request the HTTP layer has received and not yet passed on
IdleBulk(symbols) ==
    [pc |-> "idle", symbols |-> symbols, unique_symbols |-> <<>>, ig_symbols |-> <<>>,
     other_symbols |-> <<>>, tasks |-> <<>>, all_prices |-> <<>>, ig_done |-> <<>>,
     outcome |-> "none", ret |-> NoneVal]

\* asyncio.Lock.acquire: the lock is taken only when nobody holds it
CanAcquire(lock) == lock = NoOwner

\* A lock that stays with its holder when the block is left
Lock_release_Keeps(lock, holder) == lock

\* Leaving `async with self._ig_lock` (line 358), by the end of the block or by
\* an exception passing through it: the lock is released
Lock_release(lock, holder) == NoOwner

\* Lines 357-381, the broker section of call b, from `async with
\* asyncio.timeout(1200)` to the next suspension of the call.  Entering the
\* timeout block does not suspend, nor does taking a free asyncio.Lock; line
\* 366 raises TypeError while the call expression is evaluated, before anything
\* is awaited.  The exception leaves the `async with` (which releases the
\* lock) and the timeout block, is not an asyncio.TimeoutError, and so leaves
\* get_bulk_prices: the section runs from line 357 to the raise in one piece,
\* with ig_done, the symbols the loop of lines 369-377 has fetched, still
\* empty.  A call finding the lock held would wait at line 358 ("ig_wait"),
\* and one whose initialize took the keyword would be suspended in it holding
\* the lock ("ig_reconnect").
get_bulk_prices_ig_section(rec, b, lock) ==
    IF ~CanAcquire(lock)
    THEN [rec |-> [rec EXCEPT !.pc = "ig_wait"], lock |-> lock]
    ELSE IF IGIndexProvider_initialize_call({"force_reconnect"}).kind = "coroutine"
    THEN [rec |-> [rec EXCEPT !.pc = "ig_reconnect"], lock |-> b]
    ELSE [rec |-> [rec EXCEPT !.pc = "done", !.outcome = "raised"],
          lock |-> Lock_release(b, b)]

\* get_bulk_prices after the non-IG group: on to the IG section, or the return
AfterFanOut(rec, b, lock) ==
    IF rec.ig_symbols # <<>>
    THEN get_bulk_prices_ig_section(rec, b, lock)
    ELSE [rec |-> [rec EXCEPT !.pc = "done", !.outcome = "returned",
                              !.ret = CompileResponse(rec.unique_symbols, rec.all_prices)],
          lock |-> lock]

\* get_bulk_prices from its first line to its first suspension: the gather of
\* line 351 when there are other_symbols (no task has run yet), the broker
\* section otherwise
get_bulk_prices_begin(symbols, ready, b, lock) ==
    LET unique_symbols == SortedList(ToSet(symbols))
        ig_symbols == SelectSeq2(unique_symbols, {x \in ToSet(symbols) : RoutedToIG(x, ready)})
        other_symbols == SelectSeq2(unique_symbols, {x \in ToSet(symbols) : ~RoutedToIG(x, ready)})
        rec == [IdleBulk(symbols) EXCEPT
                   !.pc = "gather", !.unique_symbols = unique_symbols,
                   !.ig_symbols = ig_symbols, !.other_symbols = other_symbols,
                   !.tasks = CreateTasks(other_symbols)]
    IN IF other_symbols = <<>> THEN AfterFanOut(rec, b, lock)
       ELSE [rec |-> rec, lock |-> lock]

\* _provider_ready after the get_price tasks of the fan-out ran to their
\* first await
RECURSIVE ReadinessAfterTasks(_, _)
ReadinessAfterTasks(ready, tasks) ==
    IF tasks = <<>> THEN ready
    ELSE ReadinessAfterTasks(ReadinessAfterGetPrice(ready, Head(tasks)), Tail(tasks))

\* The HTTP layer calls aggregator.get_bulk_prices(symbols)
BulkCall(b) ==
    /\ bulk[b].pc = "idle"
    /\ LET r == get_bulk_prices_begin(bulk[b].symbols, _provider_ready, b, _ig_lock)
       IN /\ bulk' = [bulk EXCEPT ![b] = r.rec]
          /\ _ig_lock' = r.lock
    /\ UNCHANGED <<_initialized, _provider_ready, _request_stats, gp>>
    /\ UNCHANGED igVars
    /\ UNCHANGED startVars

\* The event loop iteration after the suspension of line 351: the tasks of
\* the fan-out run to their first await
BulkTasksStart(b) ==
    /\ bulk[b].pc = "gather"
    /\ \E j \in DOMAIN bulk[b].tasks : bulk[b].tasks[j].pc = "not_started"
    /\ LET started == StartTasks(bulk[b].other_symbols, _provider_ready, _request_stats)
       IN /\ bulk' = [bulk EXCEPT ![b].tasks = started.tasks]
          /\ _request_stats' = started.stats
          /\ _provider_ready' = ReadinessAfterTasks(_provider_ready, started.tasks)
    /\ UNCHANGED <<_initialized, _ig_lock, gp>>
    /\ UNCHANGED igVars
    /\ UNCHANGED startVars

\* Quotes the venues give in the bulk specifications
BulkQuotes == {[kind |-> "price", price |-> 7], [kind |-> "none"]}

\* The adapter awaited by task j of the fan-out answers
BulkTaskRespond(b, j) ==
    /\ bulk[b].pc = "gather"
    /\ bulk[b].tasks[j].pc = "awaiting"
    /\ \E quote \in BulkQuotes :
         LET r == get_price_resume(bulk[b].tasks[j], quote, _provider_ready,
                                   _request_stats, [kind |-> "none"])
         IN /\ bulk' = [bulk EXCEPT ![b].tasks[j] = r.call]
            /\ _request_stats' = r.stats
            /\ _provider_ready' = ReadinessAfterGetPrice(_provider_ready, r.call)
    /\ UNCHANGED <<_initialized, _ig_lock, gp>>
    /\ UNCHANGED igVars
    /\ UNCHANGED startVars

\* The 30 s that get_price gives the adapter awaited by task j pass (lines
\* 285-288, 294): the task goes on to its next provider
BulkTaskTimeout(b, j) ==
    /\ bulk[b].pc = "gather"
    /\ bulk[b].tasks[j].pc = "awaiting"
    /\ LET r == get_price_resume(bulk[b].tasks[j], [kind |-> "hang"], _provider_ready,
                                 _request_stats, [kind |-> "none"])
       IN /\ bulk' = [bulk EXCEPT ![b].tasks[j] = r.call]
          /\ _request_stats' = r.stats
          /\ _provider_ready' = ReadinessAfterGetPrice(_provider_ready, r.call)
    /\ UNCHANGED <<_initialized, _ig_lock, gp>>
    /\ UNCHANGED igVars
    /\ UNCHANGED startVars

\* Line 351: `await asyncio.gather(*tasks, return_exceptions=True)` returns,
\* and the call runs on through line 352 and the broker section
BulkGathered(b) ==
    /\ bulk[b].pc = "gather"
    /\ \A j \in 1..Len(bulk[b].tasks) : bulk[b].tasks[j].pc = "done"
    /\ LET r == AfterFanOut([bulk[b] EXCEPT !.all_prices = GatheredPrices(bulk[b].tasks)],
                            b, _ig_lock)
       IN /\ bulk' = [bulk EXCEPT ![b] = r.rec]
          /\ _ig_lock' = r.lock
    /\ UNCHANGED <<_initialized, _provider_ready, _request_stats, gp>>
    /\ UNCHANGED igVars
    /\ UNCHANGED startVars

-----------------------------------------------------------------------------
(* SpecBulk: one get_bulk_prices call, from request to response.           *)

\* Readiness maps the aggregator reaches through initialize and health_check
AllReady == [name \in Providers |-> TRUE]
BinanceOnly == [name \in Providers |-> name \in {"binance", "fred"}]

\* The requests of SpecBulk, each with the readiness it meets: duplicates in
\* unsorted order; a broker-routed symbol beside a crypto one; the eleven
\* crypto tickers of the classifier; an equity falling back to Binance.
BulkScenarios ==
    {[ready |-> AllReady, symbols |-> <<WAI, <<"$", "b", "t", "c">>, WAI>>],
     [ready |-> AllReady, symbols |-> <<WAI, AAPL>>],
     [ready |-> BinanceOnly, symbols |-> crypto_symbols],
     [ready |-> BinanceOnly, symbols |-> <<ETH, AAPL>>]}

\* The state after initialize and a health_check that left `ready`
ServingState(ready) ==
    /\ _initialized = TRUE
    /\ _provider_ready = ready
    /\ _request_stats = ZeroStats
    /\ _ig_lock = NoOwner
    /\ gp = <<>>
    /\ authenticated = ready["ig_index"]
    /\ ig_service = IF ready["ig_index"] THEN "IGService" ELSE "None"
    /\ _lock = NoOwner
    /\ stock_universe = {}
    /\ ig_credentials = ready["ig_index"]
    /\ ig_markets = <<>>
    /\ igt = <<>>
    /\ ServiceUp(TRUE)

InitBulk ==
    \E sc \in BulkScenarios :
        /\ ServingState(sc.ready)
        /\ bulk = <<IdleBulk(sc.symbols)>>

NextBulk ==
    \E b \in {1} :
        \/ BulkCall(b)
        \/ BulkTasksStart(b)
        \/ \E j \in DOMAIN bulk[b].tasks : BulkTaskRespond(b, j)
        \/ BulkGathered(b)

SpecBulk == InitBulk /\ [][NextBulk]_vars

-----------------------------------------------------------------------------
(* SpecBulkLock: concurrent get_bulk_prices calls with broker symbols.     *)

BulkIds == 1..MaxBulk

\* The requests of SpecBulkLock
LockInputs == {<<AAPL>>, <<AAPL, WAI>>}

InitBulkLock ==
    /\ ServingState(AllReady)
    /\ bulk \in [BulkIds -> {IdleBulk(symbols) : symbols \in LockInputs}]

NextBulkLock ==
    \E b \in BulkIds :
        \/ BulkCall(b)
        \/ BulkTasksStart(b)
        \/ \E j \in DOMAIN bulk[b].tasks : BulkTaskRespond(b, j)
        \/ \E j \in DOMAIN bulk[b].tasks : BulkTaskTimeout(b, j)
        \/ BulkGathered(b)

SpecBulkLock == InitBulkLock /\ [][NextBulkLock]_vars

-----------------------------------------------------------------------------
(* IGIndexProvider: text helpers of discovery.                             *)

\* str.lower(), one character
LowerChar(c) ==
    IF \E i \in 1..Len(UpperChars) : UpperChars[i] = c
    THEN LowerChars[CHOOSE i \in 1..Len(UpperChars) : UpperChars[i] = c]
    ELSE c

\* str.lower()
Lower(s) == [i \in 1..Len(s) |-> LowerChar(s[i])]

\* s.startswith(prefix)
StartsWith(s, prefix) ==
    Len(prefix) <= Len(s) /\ SubSeq(s, 1, Len(prefix)) = prefix

\* s.endswith(suffix)
EndsWith(s, suffix) ==
    Len(suffix) <= Len(s) /\ SubSeq(s, Len(s) - Len(suffix) + 1, Len(s)) = suffix

\* str.strip() for the blank
RECURSIVE LStrip(_)
LStrip(s) == IF s # <<>> /\ Head(s) = " " THEN LStrip(Tail(s)) ELSE s

RECURSIVE RStrip(_)
RStrip(s) ==
    IF s # <<>> /\ s[Len(s)] = " " THEN RStrip(SubSeq(s, 1, Len(s) - 1)) ELSE s

Strip(s) == RStrip(LStrip(s))

\* ' '.join(s.split())
RECURSIVE CollapseBlanks(_)
CollapseBlanks(s) ==
    LET t == LStrip(s)
    IN IF t = <<>> THEN <<>>
       ELSE IF Head(t) # " " /\ Len(t) > 1 /\ t[2] = " "
            THEN IF LStrip(Tail(t)) = <<>> THEN <<Head(t)>>
                 ELSE <<Head(t), " ">> \o CollapseBlanks(LStrip(Tail(t)))
            ELSE <<Head(t)>> \o CollapseBlanks(Tail(t))

\* s.replace(old, new)
RECURSIVE Replace(_, _, _)
Replace(s, old, new) ==
    IF s = <<>> THEN <<>>
    ELSE IF StartsWith(s, old)
         THEN new \o Replace(SubSeq(s, Len(old) + 1, Len(s)), old, new)
         ELSE <<Head(s)>> \o Replace(Tail(s), old, new)

\* IGIndexProvider._clean_instrument_name: suffixes_to_remove
suffixes_to_remove ==
    <<<<" ", "D", "F", "B">>, <<" ", "C", "F", "D">>, <<" ", "C", "a", "s", "h">>, <<" ", "(", "D", "F", "B", ")">>, <<" ", "(", "C", "F", "D", ")">>, <<" ", "-", " ", "C", "a", "s", "h">>, <<" ", "-", " ", "D", "F", "B">>>>

\* IGIndexProvider._clean_instrument_name: replacements, in dict order
replacements ==
    <<<<<<"U", "S", " ", "5", "0", "0">>, <<"S", "&", "P", " ", "5", "0", "0">>>>, <<<<"U", "S", " ", "T", "e", "c", "h", " ", "1", "0", "0">>, <<"N", "A", "S", "D", "A", "Q", " ", "1", "0", "0">>>>,
      <<<<"U", "S", " ", "W", "a", "l", "l", " ", "S", "t", " ", "3", "0">>, <<"D", "o", "w", " ", "J", "o", "n", "e", "s", " ", "3", "0">>>>, <<<<"W", "a", "l", "l", " ", "S", "t", "r", "e", "e", "t", " ", "3", "0">>, <<"D", "o", "w", " ", "J", "o", "n", "e", "s", " ", "3", "0">>>>,
      <<<<"U", "K", " ", "1", "0", "0">>, <<"F", "T", "S", "E", " ", "1", "0", "0">>>>, <<<<"G", "e", "r", "m", "a", "n", "y", " ", "4", "0">>, <<"D", "A", "X">>>>,
      <<<<"J", "a", "p", "a", "n", " ", "2", "2", "5">>, <<"N", "i", "k", "k", "e", "i", " ", "2", "2", "5">>>>, <<<<"H", "o", "n", "g", " ", "K", "o", "n", "g", " ", "4", "0">>, <<"H", "a", "n", "g", " ", "S", "e", "n", "g">>>>,
      <<<<"F", "r", "a", "n", "c", "e", " ", "4", "0">>, <<"C", "A", "C", " ", "4", "0">>>>, <<<<"S", "p", "a", "i", "n", " ", "3", "5">>, <<"I", "B", "E", "X", " ", "3", "5">>>>,
      <<<<"A", "u", "s", "t", "r", "a", "l", "i", "a", " ", "2", "0", "0">>, <<"A", "S", "X", " ", "2", "0", "0">>>>>>

\* `for suffix in suffixes_to_remove: if cleaned.endswith(suffix): ...`
RECURSIVE RemoveSuffixes(_, _)
RemoveSuffixes(cleaned, suffixes) ==
    IF suffixes = <<>> THEN cleaned
    ELSE IF EndsWith(cleaned, Head(suffixes))
         THEN RemoveSuffixes(Strip(SubSeq(cleaned, 1, Len(cleaned) - Len(Head(suffixes)))),
                             Tail(suffixes))
         ELSE RemoveSuffixes(cleaned, Tail(suffixes))

\* `for old, new in replacements.items(): if old in cleaned: ...`
RECURSIVE ApplyReplacements(_, _)
ApplyReplacements(cleaned, reps) ==
    IF reps = <<>> THEN cleaned
    ELSE IF IsSubstr(Head(reps)[1], cleaned)
         THEN ApplyReplacements(Replace(cleaned, Head(reps)[1], Head(reps)[2]), Tail(reps))
         ELSE ApplyReplacements(cleaned, Tail(reps))

\* IGIndexProvider._clean_instrument_name
_clean_instrument_name(raw_name) ==
    IF raw_name = <<>> THEN raw_name
    ELSE ApplyReplacements(CollapseBlanks(RemoveSuffixes(Strip(raw_name), suffixes_to_remove)),
                           replacements)

\* IGIndexProvider._infer_asset_type; metadata_type is metadata.get('type', '')
\* or '' when there is no metadata
_infer_asset_type(ticker0, epic, metadata_type) ==
    LET ticker == Upper(ticker0)
    IN IF StartsWith(ticker, <<"^">>)
          \/ ticker \in {<<"S", "P", "Y">>, <<"Q", "Q", "Q">>, <<"D", "I", "A">>, <<"I", "W", "M">>, <<"V", "I", "X">>}
          \/ StartsWith(epic, <<"I", "X", ".">>)
       THEN <<"i", "n", "d", "e", "x">>
       ELSE IF (IsSubstr(<<"U", "S", "D">>, ticker) /\ Len(ticker) = 6)
               \/ EndsWith(ticker, <<"=", "X">>) \/ StartsWith(epic, <<"C", "S", ".", "D", ".">>)
       THEN <<"f", "o", "r", "e", "x">>
       ELSE IF ticker \in {<<"G", "O", "L", "D">>, <<"S", "I", "L", "V", "E", "R">>, <<"O", "I", "L">>, <<"B", "R", "E", "N", "T">>, <<"N", "A", "T", "G", "A", "S">>, <<"C", "O", "P", "P", "E", "R">>}
               \/ EndsWith(ticker, <<"=", "F">>) \/ StartsWith(epic, <<"C", "C", ".", "D", ".">>)
               \/ StartsWith(epic, <<"M", "T", ".", "D", ".">>)
       THEN <<"c", "o", "m", "m", "o", "d", "i", "t", "y">>
       ELSE IF ticker \in {<<"B", "T", "C">>, <<"E", "T", "H">>} \/ IsSubstr(<<"C", "R", "Y", "P", "T", "O">>, metadata_type)
       THEN <<"c", "r", "y", "p", "t", "o">>
       ELSE <<"s", "t", "o", "c", "k">>

\* IGIndexProvider._normalize_price: the prefixes of individual-equity codes
equity_prefixes ==
    <<<<"U", "A", ".", "D", ".">>, <<"U", "B", ".", "D", ".">>, <<"U", "C", ".", "D", ".">>, <<"U", "D", ".", "D", ".">>, <<"U", "E", ".", "D", ".">>, <<"U", "F", ".", "D", ".">>, <<"U", "G", ".", "D", ".">>, <<"U", "H", ".", "D", ".">>,
      <<"U", "I", ".", "D", ".">>, <<"U", "J", ".", "D", ".">>, <<"S", "H", ".", "D", ".">>, <<"S", "A", ".", "D", ".">>, <<"S", "B", ".", "D", ".">>, <<"S", "C", ".", "D", ".">>, <<"S", "D", ".", "D", ".">>, <<"S", "E", ".", "D", ".">>,
      <<"S", "F", ".", "D", ".">>, <<"S", "G", ".", "D", ".">>, <<"S", "I", ".", "D">>>>

\* A price as the quotient num / den of two integers, den > 0
Quotient(num, den) == [num |-> num, den |-> den]

\* Equality and order of quotients
SameQuotient(a, b) == a.num * b.den = b.num * a.den

\* epic.startswith(tuple of prefixes)
StartsWithAny(s, prefixes) == \E i \in 1..Len(prefixes) : StartsWith(s, prefixes[i])

\* IGIndexProvider._normalize_price
_normalize_price(price, epic) ==
    IF StartsWithAny(epic, equity_prefixes) /\ EndsWith(epic, <<".", "D", "A", "I", "L", "Y", ".", "I", "P">>)
    THEN Quotient(price, 100)
    ELSE Quotient(price, 1)

\* A number in a broker's snapshot; an absent one is None
Float(value) == [kind |-> "float", value |-> value]

\* `float(x or 0.0)` for a snapshot field that may be None
OrZero(x) == IF x = NoneVal THEN 0 ELSE x.value

\* The members of the enum AssetType (app/models.py 6-11): name -> value
AssetType_members ==
    {<<<<"E", "Q", "U", "I", "T", "Y">>, "equity">>, <<<<"C", "O", "M", "M", "O", "D", "I", "T", "Y">>, "commodity">>, <<<<"F", "O", "R", "E", "X">>, "forex">>, <<<<"I", "N", "D", "E", "X">>, "index">>,
     <<<<"C", "R", "Y", "P", "T", "O">>, "crypto">>}

\* Lines 329-330 of get_price: the AssetType of the record, the member whose
\* name is the upper-cased string, or EQUITY when there is none
RecordAssetType(asset_type_str) ==
    LET name == Upper(asset_type_str)
    IN IF \E m \in AssetType_members : m[1] = name
       THEN (CHOOSE m \in AssetType_members : m[1] = name)[2]
       ELSE "equity"

\* Lines 307-336 of get_price: the record built from the broker's market data,
\* or None.  market_data is None, a dict without snapshot, or a snapshot.
IGIndexProvider_price_record(ticker, epic, asset_type_str, market_data) ==
    IF market_data.kind # "snapshot" THEN NoneVal
    ELSE LET raw_price == IF market_data.bid # NoneVal THEN market_data.bid.value
                          ELSE IF market_data.offer # NoneVal THEN market_data.offer.value
                          ELSE 0
         IN IF raw_price = 0 THEN NoneVal
            ELSE [kind |-> "PriceData", symbol |-> ticker,
                  asset_type |-> RecordAssetType(asset_type_str),
                  price |-> _normalize_price(raw_price, epic),
                  change_percent |-> OrZero(market_data.percentageChange),
                  change_absolute |-> OrZero(market_data.netChange),
                  source |-> "ig_index"]

-----------------------------------------------------------------------------
(* IGIndexProvider: session, search, metadata and discovery.               *)
(* A task is one coroutine running an entry point of the adapter.  It runs *)
(* without interruption from one suspension point to the next: waiting for *)
(* _lock, and the awaits on the broker (create_session, fetch_accounts,    *)
(* search_markets, fetch_market_by_epic) and on asyncio.sleep.  The        *)
(* operators below take and give the adapter's fields as a record st.      *)
(* A task waiting for _lock keeps in `queue` its place among the waiters   *)
(* of the asyncio.Lock, and a task keeps in `thread` the call that         *)
(* asyncio.to_thread runs for it on a worker thread.                       *)

IdleTask ==
    [op |-> "none", pc |-> "idle", arg |-> <<>>, phase |-> "none", epic |-> <<>>,
     metadata |-> NoneVal, symbol_data |-> NoneVal, result |-> NoneVal,
     probe |-> [kind |-> "none"], queue |-> 0, thread |-> "none"]

\* `return result` of the entry point
Done(task, result) == [task EXCEPT !.pc = "done", !.result = result]

\* asyncio.Lock.acquire on IGIndexProvider._lock: the lock is taken at once
\* only when nobody holds it and nobody waits for it; a task that finds
\* waiters, woken or not, joins them at the back
LockFree(lock, waiters) == lock = NoOwner /\ waiters = 0

\* bool(x) for the values discovery tests: a coroutine object is truthy
Truthy(x) ==
    IF x.kind = "None" THEN FALSE
    ELSE IF x.kind = "bool" THEN x.value
    ELSE TRUE

\* Calling the `async def` _save_discovered_symbol without await gives a
\* coroutine object; its body (the upsert) does not run.
IGIndexProvider__save_discovered_symbol_call == [kind |-> "coroutine"]

\* Lines 176-179: the candidates among the search results
RECURSIVE Candidates(_)
Candidates(rows) ==
    IF rows = <<>> THEN <<>>
    ELSE IF Head(rows).marketStatus = "TRADEABLE" /\ Head(rows).streamingPricesAvailable
         THEN <<Head(rows)>> \o Candidates(Tail(rows))
         ELSE Candidates(Tail(rows))

\* A selection that takes the first candidate whatever its name
BestMatch_First(candidates, search_term) == candidates[1]

\* Lines 186-192: the best match among the candidates
BestMatch(candidates, search_term) ==
    IF Len(candidates) = 1 THEN candidates[1]
    ELSE LET exact == {i \in 1..Len(candidates) :
                          Lower(candidates[i].instrumentName) = Lower(search_term)}
         IN IF exact # {} THEN candidates[CHOOSE i \in exact : \A j \in exact : i <= j]
            ELSE candidates[1]

\* Lines 229-239: the metadata built from the instrument the broker returned
Metadata(epic, instrument) ==
    [kind |-> "dict", epic |-> epic, name |-> instrument.name, type |-> instrument.type,
     has_clean_name |-> instrument.name # <<>>,
     clean_name |-> _clean_instrument_name(instrument.name)]

\* Lines 299-305 of get_price: with symbol_data found or discovered, read the
\* epic and self.ig_service and await fetch_market_by_epic
get_price_fetch(task, st, symbol_data) ==
    IF symbol_data.epic = <<>> \/ st.ig_service = "None"
    THEN [task |-> Done([task EXCEPT !.symbol_data = symbol_data], NoneVal), st |-> st]
    ELSE [task |-> [task EXCEPT !.symbol_data = symbol_data, !.epic = symbol_data.epic,
                                !.phase = "price", !.pc = "calling"],
          st |-> st]

\* Lines 295-298 of get_price and the `return` of _discover_and_enhance_symbol
\* to the metadata router
_discover_and_enhance_symbol_return(task, st, mapping) ==
    IF task.op = "discover" \/ mapping = NoneVal
    THEN [task |-> Done(task, mapping), st |-> st]
    ELSE get_price_fetch(task, st, mapping)

\* Lines 199-212 of _discover_and_enhance_symbol, and the return of
\* _get_market_metadata to a caller outside the adapter
_get_market_metadata_return(task, st, metadata) ==
    IF task.op = "metadata" THEN [task |-> Done(task, metadata), st |-> st]
    ELSE LET display_name == IF Truthy(metadata) /\ metadata.has_clean_name
                             THEN metadata.clean_name ELSE task.arg
             asset_type == IF Truthy(metadata)
                           THEN _infer_asset_type(task.arg, task.epic, metadata.type)
                           ELSE <<"s", "t", "o", "c", "k">>
             task1 == [task EXCEPT !.metadata = metadata]
         IN IF Truthy(IGIndexProvider__save_discovered_symbol_call)
            THEN _discover_and_enhance_symbol_return(task1, st,
                     [kind |-> "dict", symbol |-> task.arg, epic |-> task.epic,
                      display_name |-> display_name, asset_type |-> asset_type])
            ELSE _discover_and_enhance_symbol_return(task1, st, NoneVal)

RECURSIVE _ensure_session_is_active(_, _, _, _)
RECURSIVE initialize_enter(_, _, _, _)
RECURSIVE initialize_locked(_, _, _, _)
RECURSIVE initialize_return(_, _, _, _, _)
RECURSIVE AfterEnsure(_, _, _, _)
RECURSIVE search_markets_return(_, _, _, _, _)

\* Lines 172-198 of _discover_and_enhance_symbol, and the return of
\* search_markets to a caller outside the adapter
search_markets_return(t, task, st, creds, rows) ==
    IF task.op = "search" THEN [task |-> Done(task, [kind |-> "list", rows |-> rows]), st |-> st]
    ELSE IF rows = <<>> \/ Candidates(rows) = <<>>
         THEN _discover_and_enhance_symbol_return(task, st, NoneVal)
         ELSE LET best_match == BestMatch(Candidates(rows), Upper(task.arg))
              IN _ensure_session_is_active(
                     t, [task EXCEPT !.phase = "metadata", !.epic = best_match.epic],
                     st, creds)

\* search_markets / _get_market_metadata give up: [] or None; get_price, whose
\* own session check failed or raised, returns None (lines 288-291, 338-340)
ReturnEmpty(t, task, st, creds) ==
    IF task.phase = "search" THEN search_markets_return(t, task, st, creds, <<>>)
    ELSE IF task.phase = "lookup" THEN [task |-> Done(task, NoneVal), st |-> st]
    ELSE _get_market_metadata_return(task, st, NoneVal)

\* Lines 137-148, 218-224 and 288-293: after _ensure_session_is_active returned
AfterEnsure(t, task, st, creds) ==
    IF ~st.authenticated THEN ReturnEmpty(t, task, st, creds)
    ELSE IF task.phase = "search"
         THEN IF st.ig_service = "None"
              THEN search_markets_return(t, task, st, creds, <<>>)
              ELSE [task |-> [task EXCEPT !.pc = "calling"], st |-> st]
         ELSE IF task.phase = "lookup"
         THEN [task |-> [task EXCEPT !.pc = "calling"], st |-> st]
         ELSE [task |-> [task EXCEPT !.pc = "sleeping"], st |-> st]

\* `return` of initialize, to the aggregator or to _ensure_session_is_active
initialize_return(t, task, st, creds, ret) ==
    IF task.op = "initialize"
    THEN [task |-> Done(task, [kind |-> "bool", value |-> ret]), st |-> st]
    ELSE AfterEnsure(t, task, st, creds)

\* Lines 34-50 of initialize, holding _lock
initialize_locked(t, task, st, creds) ==
    IF st.authenticated
    THEN initialize_return(t, task, [st EXCEPT !._lock = NoOwner], creds, TRUE)
    ELSE IF ~creds
    THEN initialize_return(t, task, [st EXCEPT !._lock = NoOwner], creds, FALSE)
    ELSE [task |-> [task EXCEPT !.pc = "create_session", !.thread = "create_session"],
          st |-> [st EXCEPT !.ig_service = "IGService"]]

\* Line 33 of initialize: `async with self._lock`
initialize_enter(t, task, st, creds) ==
    IF LockFree(st._lock, st.waiters)
    THEN initialize_locked(t, task, [st EXCEPT !._lock = t], creds)
    ELSE [task |-> [task EXCEPT !.pc = "lock_wait", !.queue = st.waiters + 1],
          st |-> [st EXCEPT !.waiters = @ + 1]]

\* Lines 64-68 of _ensure_session_is_active
_ensure_session_is_active(t, task, st, creds) ==
    IF ~st.authenticated \/ st.ig_service = "None"
    THEN initialize_enter(t, task, st, creds)
    ELSE [task |-> [task EXCEPT !.pc = "fetch_accounts"], st |-> st]

\* The names line 285 of get_price can resolve: the parameters of the method
\* and the names lines 6-20 bind in the module
IGIndexProvider_get_price_scope ==
    {"self"} \cup IGIndexProvider_get_price_params
    \cup {"IGService", "config", "asyncio", "psycopg2", "os", "pd", "Optional", "List",
          "Dict", "Any", "datetime", "PriceData", "AssetType", "settings", "HTTPError",
          "ConnectionError", "logging", "logger", "IGIndexProvider"}

\* IGIndexProvider.get_price from its first line to its first suspension.
\* Reading a name outside the scope raises NameError inside the try; the
\* handler of line 338 returns None.  Were the name bound (to the True the
\* aggregator means to pass), the session check of line 286 would run.
get_price_enter(t, task, st, creds) ==
    IF "ensure_session" \notin IGIndexProvider_get_price_scope
    THEN [task |-> Done(task, IGIndexProvider_get_price_body), st |-> st]
    ELSE _ensure_session_is_active(t, [task EXCEPT !.phase = "lookup"], st, creds)

\* The adapter's fields as the operators above take them, with the number
\* of tasks waiting for _lock
IgState ==
    [authenticated |-> authenticated, ig_service |-> ig_service, _lock |-> _lock,
     waiters |-> Cardinality({u \in DOMAIN igt : igt[u].pc = "lock_wait"})]

\* The tasks after the waiter at place pos has left the queue of _lock
Dequeued(tasks, pos) ==
    [u \in DOMAIN tasks |->
        IF tasks[u].pc = "lock_wait" /\ tasks[u].queue > pos
        THEN [tasks[u] EXCEPT !.queue = @ - 1]
        ELSE tasks[u]]

\* A step of task t, the other tasks being `tasks`, ends in r
IgStepFrom(tasks, t, r) ==
    /\ igt' = [tasks EXCEPT ![t] = r.task]
    /\ authenticated' = r.st.authenticated
    /\ ig_service' = r.st.ig_service
    /\ _lock' = r.st._lock
    /\ UNCHANGED <<stock_universe, ig_credentials, ig_markets>>
    /\ UNCHANGED aggVars
    /\ UNCHANGED startVars

\* A step of task t ends in r
IgStep(t, r) == IgStepFrom(igt, t, r)

\* The ticker, search term and instrument code callers pass to the adapter
IgTicker == <<"a", "a", "p", "l">>
AAPL_EPIC == <<"U", "A", ".", "D", ".", "A", "A", "P", "L", ".", "D", "A", "I", "L", "Y", ".", "I", "P">>
AAPL_CASH_EPIC == <<"U", "A", ".", "D", ".", "A", "A", "P", "L", ".", "C", "A", "S", "H", ".", "I", "P">>

IgArgs(op) ==
    IF op = "metadata" THEN {AAPL_EPIC}
    ELSE IF op = "initialize" THEN {<<>>}
    ELSE IF op = "search" THEN {IgTicker, Upper(IgTicker)}
    ELSE {IgTicker}

\* A caller enters the adapter: DataAggregator (initialize, search_markets,
\* get_price) or the metadata router (_get_market_metadata,
\* _discover_and_enhance_symbol)
IgStart(t, ops) ==
    /\ igt[t].pc = "idle"
    /\ \E op \in ops :
       \E arg \in IgArgs(op) :
         LET task == [IdleTask EXCEPT
                         !.op = op, !.pc = "running", !.arg = arg,
                         !.phase = IF op \in {"search", "discover"} THEN "search"
                                   ELSE IF op = "metadata" THEN "metadata" ELSE "none",
                         !.epic = IF op = "metadata" THEN arg ELSE <<>>]
         IN IgStep(t, IF op = "initialize"
                      THEN initialize_enter(t, task, IgState, ig_credentials)
                      ELSE IF op = "get_price"
                      THEN get_price_enter(t, task, IgState, ig_credentials)
                      ELSE _ensure_session_is_active(t, task, IgState, ig_credentials))

\* Line 33: the lock has been released and the first of the tasks waiting
\* for it, which the release woke, takes it
IgLockGranted(t) ==
    /\ igt[t].pc = "lock_wait"
    /\ igt[t].queue = 1
    /\ _lock = NoOwner
    /\ IgStepFrom(Dequeued(igt, 1), t,
                  initialize_locked(t, [igt[t] EXCEPT !.queue = 0],
                                    [IgState EXCEPT !._lock = t, !.waiters = @ - 1],
                                    ig_credentials))

\* Lines 50-60: create_session returns or raises
IgCreateSession(t) ==
    /\ igt[t].pc = "create_session"
    /\ \E session_ok \in BOOLEAN :
         IgStep(t, IF session_ok
                   THEN initialize_return(t, [igt[t] EXCEPT !.thread = "none"],
                            [IgState EXCEPT !.authenticated = TRUE, !._lock = NoOwner],
                            ig_credentials, TRUE)
                   ELSE initialize_return(t, [igt[t] EXCEPT !.thread = "none"],
                            [IgState EXCEPT !.authenticated = FALSE, !.ig_service = "None",
                                            !._lock = NoOwner],
                            ig_credentials, FALSE))

\* An exception of class `class` whose str() is message
Raise(class, message) == [kind |-> "raise", class |-> class, message |-> message]

\* The 60 s that DataAggregator.initialize gives its tasks (aggregator.py 69)
\* pass while the task it made for the adapter is suspended in initialize, and
\* CancelledError is raised at the await.  A task waiting for _lock (line 33)
\* leaves the queue.  A task in create_session (line 50) leaves the handler of
\* line 56 aside, CancelledError being no Exception: `authenticated` and
\* ig_service stay as they are, `async with` releases _lock, and the worker
\* thread, which asyncio.to_thread cannot stop, goes on creating the session.
IgInitializeCancelled(t) ==
    /\ igt[t].op = "initialize"
    /\ igt[t].pc \in {"lock_wait", "create_session"}
    /\ igt' = [(IF igt[t].pc = "lock_wait" THEN Dequeued(igt, igt[t].queue) ELSE igt)
                 EXCEPT ![t] = [Done(igt[t], Raise("CancelledError", <<>>))
                                   EXCEPT !.queue = 0]]
    /\ _lock' = IF igt[t].pc = "create_session" THEN NoOwner ELSE _lock
    /\ UNCHANGED <<authenticated, ig_service, stock_universe, ig_credentials, ig_markets>>
    /\ UNCHANGED aggVars
    /\ UNCHANGED startVars

\* The create_session of a cancelled task ends on its worker thread; nobody
\* awaits its result
IgThreadEnds(t) ==
    /\ igt[t].pc = "done"
    /\ igt[t].thread = "create_session"
    /\ igt' = [igt EXCEPT ![t].thread = "none"]
    /\ UNCHANGED <<authenticated, ig_service, _lock, stock_universe, ig_credentials,
                   ig_markets>>
    /\ UNCHANGED aggVars
    /\ UNCHANGED startVars

\* What `await asyncio.to_thread(self.ig_service.fetch_accounts)` can give: a
\* return, or one of the exceptions the handler tells apart
FetchAccountsOutcomes ==
    {[kind |-> "ok"],
     Raise("ConnectionError", <<"b", "u", "s", "y">>),
     Raise("HTTPError", <<"b", "u", "s", "y">>),
     Raise("Exception", <<"b", "a", "d", " ", "T", "o", "k", "e", "n">>),
     Raise("Exception", <<"S", "E", "C", "U", "R", "I", "T", "Y">>),
     Raise("Exception", <<"b", "u", "s", "y">>)}

\* A handler that takes no failure of the probe for a dead session
SessionAppearsDead_Never(e) == FALSE

\* Lines 70-71: `error_message = str(e).lower()` and `isinstance(e,
\* (ConnectionError, HTTPError)) or "security" in error_message or "token" in
\* error_message`
SessionAppearsDead(e) ==
    LET error_message == Lower(e.message)
    IN \/ e.class \in {"ConnectionError", "HTTPError"}
       \/ IsSubstr(<<"s", "e", "c", "u", "r", "i", "t", "y">>, error_message)
       \/ IsSubstr(<<"t", "o", "k", "e", "n">>, error_message)

\* A probe whose handler drops the session object of a dead session and
\* leaves the adapter marked authenticated
IgFetchAccounts_DropsSession(t) ==
    /\ igt[t].pc = "fetch_accounts"
    /\ \E e \in FetchAccountsOutcomes :
         IgStep(t, IF e.kind = "ok"
                   THEN AfterEnsure(t, igt[t], IgState, ig_credentials)
                   ELSE initialize_enter(t, [igt[t] EXCEPT !.probe = e],
                                         [IgState EXCEPT !.ig_service = "None"],
                                         ig_credentials))

\* Lines 68-77: fetch_accounts returns, fails as a dead session does (the
\* adapter marks itself unauthenticated and calls initialize), or fails
\* otherwise (the error is re-raised and the caller's handler gives up); the
\* task keeps in `probe` the exception its probe raised
IgFetchAccounts(t) ==
    /\ igt[t].pc = "fetch_accounts"
    /\ \E e \in FetchAccountsOutcomes :
         IgStep(t, IF e.kind = "ok"
                   THEN AfterEnsure(t, igt[t], IgState, ig_credentials)
                   ELSE IF SessionAppearsDead(e)
                   THEN initialize_enter(t, [igt[t] EXCEPT !.probe = e],
                                         [IgState EXCEPT !.authenticated = FALSE],
                                         ig_credentials)
                   ELSE ReturnEmpty(t, [igt[t] EXCEPT !.probe = e], IgState,
                                    ig_credentials))

\* Lines 224-225: the 0.5 s sleep ends and self.ig_service is read
IgSleepDone(t) ==
    /\ igt[t].pc = "sleeping"
    /\ IgStep(t, IF ig_service = "None"
                 THEN _get_market_metadata_return(igt[t], IgState, NoneVal)
                 ELSE [task |-> [igt[t] EXCEPT !.pc = "calling"], st |-> IgState])

\* The term a task hands to the broker's search: search_markets passes its
\* argument as it is (line 147); _discover_and_enhance_symbol upper-cases the
\* ticker first (line 168)
SearchTerm(task) == IF task.op = "search" THEN task.arg ELSE Upper(task.arg)

\* What the broker's market search returns for a term
SearchRows(search_term) ==
    IF search_term = ig_markets.term THEN ig_markets.rows ELSE <<>>

\* Lines 89-108: what _lookup_symbol_in_db gives get_price
LookupAnswers(ticker) ==
    {[kind |-> "None"]} \cup
    {[kind |-> "dict", symbol |-> row.symbol, epic |-> row.epic,
      display_name |-> row.display_name, asset_type |-> row.asset_type] :
        row \in {r \in stock_universe : r.symbol = Upper(ticker) /\ r.active}}

\* What the broker's fetch_market_by_epic gives get_price
MarketData ==
    {[kind |-> "None"],
     [kind |-> "snapshot", bid |-> Float(15000), offer |-> Float(15010),
      percentageChange |-> Float(2), netChange |-> Float(300)]}

\* Lines 104, 146-160, 225-242 and 305-340: the call awaited on a worker
\* thread answers: the store lookup, the broker's search or one of its fetches
IgBrokerAnswer(t) ==
    /\ igt[t].pc = "calling"
    /\ \E answer \in IF igt[t].phase = "search" THEN {"rows", "error"}
                     ELSE IF igt[t].phase = "lookup" THEN LookupAnswers(igt[t].arg)
                     ELSE IF igt[t].phase = "price" THEN MarketData
                     ELSE {"instrument", "no_instrument", "error"} :
         IgStep(t, IF igt[t].phase = "search"
                   THEN search_markets_return(t, igt[t], IgState, ig_credentials,
                            IF answer = "rows" THEN SearchRows(SearchTerm(igt[t])) ELSE <<>>)
                   ELSE IF igt[t].phase = "lookup"
                   THEN IF Truthy(answer)
                        THEN get_price_fetch(igt[t], IgState, answer)
                        ELSE _ensure_session_is_active(t, [igt[t] EXCEPT !.phase = "search"],
                                 IgState, ig_credentials)
                   ELSE IF igt[t].phase = "price"
                   THEN [task |-> Done(igt[t], IGIndexProvider_price_record(
                                      igt[t].arg, igt[t].epic,
                                      igt[t].symbol_data.asset_type, answer)),
                         st |-> IgState]
                   ELSE _get_market_metadata_return(igt[t], IgState,
                            IF answer = "instrument"
                            THEN Metadata(igt[t].epic, ig_markets.instrument)
                            ELSE NoneVal))

-----------------------------------------------------------------------------
(* SpecIG: concurrent callers of the adapter and its session.              *)

\* concurrent tasks inside the adapter in one run of SpecIG
MaxIgTasks == 3

IgIds == 1..MaxIgTasks

Row(epic, instrumentName, marketStatus, streamingPricesAvailable) ==
    [epic |-> epic, instrumentName |-> instrumentName, marketStatus |-> marketStatus,
     streamingPricesAvailable |-> streamingPricesAvailable]

\* The broker lists one tradeable market for the ticker
OneMarket ==
    [term |-> <<"A", "A", "P", "L">>,
     rows |-> <<Row(AAPL_EPIC, <<"A", "p", "p", "l", "e", " ", "I", "n", "c">>, "TRADEABLE", TRUE)>>,
     instrument |-> [name |-> <<" ", "A", "p", "p", "l", "e", " ", "I", "n", "c", " ", " ", "C", "F", "D">>, type |-> <<"S", "H", "A", "R", "E", "S">>]]

\* The session objects the adapter may hold: the IGService of the session it
\* is authenticated with; without one, None (after construction or a failed
\* create_session) or, with credentials, the IGService that a cancelled
\* initialize left
SessionObjects(auth, creds) ==
    IF auth THEN {"IGService"}
    ELSE IF creds THEN {"None", "IGService"}
    ELSE {"None"}

\* The states of the adapter after construction and after an initialize
AdapterState(auth, creds, markets, ids) ==
    /\ _initialized = TRUE
    /\ _provider_ready = AllReady
    /\ _request_stats = ZeroStats
    /\ _ig_lock = NoOwner
    /\ gp = <<>>
    /\ bulk = <<>>
    /\ authenticated = auth
    /\ ig_service \in SessionObjects(auth, creds)
    /\ _lock = NoOwner
    /\ stock_universe = {}
    /\ ig_credentials = creds
    /\ ig_markets = markets
    /\ igt = [t \in ids |-> IdleTask]
    /\ ServiceUp(TRUE)

InitIG ==
    \E auth, creds \in BOOLEAN :
        /\ auth => creds
        /\ AdapterState(auth, creds, OneMarket, IgIds)

\* The entry points that read or renew the session
SessionOps == {"initialize", "search", "metadata", "get_price"}

NextIG ==
    \E t \in IgIds :
        \/ IgStart(t, SessionOps)
        \/ IgLockGranted(t)
        \/ IgCreateSession(t)
        \/ IgInitializeCancelled(t)
        \/ IgThreadEnds(t)
        \/ IgFetchAccounts(t)
        \/ IgSleepDone(t)
        \/ IgBrokerAnswer(t)

SpecIG == InitIG /\ [][NextIG]_vars

-----------------------------------------------------------------------------
(* SpecDiscovery: _discover_and_enhance_symbol beside another caller.      *)

\* The broker lists nothing for the ticker
NoMarket ==
    [term |-> <<"A", "A", "P", "L">>, rows |-> <<>>, instrument |-> [name |-> <<>>, type |-> <<>>]]

\* The broker lists the ticker's market, closed
ClosedMarket ==
    [term |-> <<"A", "A", "P", "L">>,
     rows |-> <<Row(AAPL_EPIC, <<"A", "p", "p", "l", "e", " ", "I", "n", "c">>, "CLOSED", TRUE),
                Row(AAPL_CASH_EPIC, <<"A", "p", "p", "l", "e", " ", "I", "n", "c">>, "TRADEABLE", FALSE)>>,
     instrument |-> [name |-> <<"A", "p", "p", "l", "e", " ", "I", "n", "c">>, type |-> <<"S", "H", "A", "R", "E", "S">>]]

\* The broker lists two candidates, the second named exactly as the ticker,
\* and its instrument has no name
TwoMarkets ==
    [term |-> <<"A", "A", "P", "L">>,
     rows |-> <<Row(AAPL_EPIC, <<"A", "p", "p", "l", "e", " ", "I", "n", "c">>, "TRADEABLE", TRUE),
                Row(AAPL_CASH_EPIC, <<"A", "a", "p", "l">>, "TRADEABLE", TRUE)>>,
     instrument |-> [name |-> <<>>, type |-> <<"S", "H", "A", "R", "E", "S">>]]

Catalogs == {OneMarket, NoMarket, ClosedMarket, TwoMarkets}

\* Task 1 is the metadata router's discovery; task 2 is another caller
DiscoveryIds == {1, 2}

InitDiscovery ==
    \E auth, creds \in BOOLEAN, markets \in Catalogs :
        /\ auth => creds
        /\ AdapterState(auth, creds, markets, DiscoveryIds)

NextDiscovery ==
    \/ IgStart(1, {"discover"})
    \/ IgStart(2, {"initialize", "metadata"})
    \/ \E t \in DiscoveryIds :
        \/ IgLockGranted(t)
        \/ IgCreateSession(t)
        \/ IgInitializeCancelled(t)
        \/ IgThreadEnds(t)
        \/ IgFetchAccounts(t)
        \/ IgSleepDone(t)
        \/ IgBrokerAnswer(t)

SpecDiscovery == InitDiscovery /\ [][NextDiscovery]_vars

-----------------------------------------------------------------------------
(* Properties of get_price (Spec).                                         *)

\* The index of a provider in the list a call iterates over
Position(call, provider_name) ==
    CHOOSE i \in 1..Len(call.providers) : call.providers[i] = provider_name

\* An attempt whose adapter returned a record with a price above zero
YieldedPrice(attempt) ==
    /\ attempt.response.kind = "result"
    /\ attempt.response.value.kind = "PriceData"
    /\ attempt.response.value.price > 0

\* C1: get_price never returns a record whose price is zero or negative; a
\* provider that answers with such a price is passed over for the next one,
\* and a returned record is the answer of the first provider, in the order of
\* the call's provider list, that yielded a price above zero.
C1_FirstValidatedSuccess ==
    \A k \in DOMAIN gp :
        gp[k].pc = "done" /\ gp[k].result # NoneVal =>
            LET tried == gp[k].tried
                n == Len(tried)
            IN /\ gp[k].result.kind = "PriceData"
               /\ gp[k].result.price > 0
               /\ n >= 1
               /\ tried[n].response = Returned(gp[k].result)
               /\ gp[k].result.source = tried[n].provider
               /\ \A j \in 1..(n - 1) : ~YieldedPrice(tried[j])
               /\ \A j1, j2 \in 1..n :
                     j1 < j2 => Position(gp[k], tried[j1].provider)
                                  < Position(gp[k], tried[j2].provider)

\* A call returned the second provider's record after the first provider
\* answered with a price of zero or less
C1_Witness ==
    \E k \in DOMAIN gp :
        /\ gp[k].pc = "done"
        /\ gp[k].result.kind = "PriceData"
        /\ Len(gp[k].tried) = 2
        /\ gp[k].tried[1].response.kind = "result"
        /\ gp[k].tried[1].response.value.kind = "PriceData"
        /\ gp[k].tried[1].response.value.price <= 0
        /\ gp[k].tried[2].provider = "mexc"

\* C2: get_price never lets an exception out: a raise or a timeout of one
\* provider counts as that provider having no data and the loop goes on, and
\* the call returns None when no provider yielded a price.
C2_NeverPropagates ==
    \A k \in DOMAIN gp :
        /\ gp[k].outcome # "raised"
        /\ gp[k].pc = "done" =>
              /\ gp[k].outcome = "returned"
              /\ (\A j \in 1..Len(gp[k].tried) : ~YieldedPrice(gp[k].tried[j]))
                    => gp[k].result = NoneVal

\* A call whose first provider timed out went on to the second provider
C2_Witness ==
    \E k \in DOMAIN gp :
        /\ gp[k].pc = "done"
        /\ Len(gp[k].tried) = 2
        /\ gp[k].tried[1].response = TimeoutError
        /\ gp[k].outcome = "returned"

\* What the venue held when the attempt was made
Held(attempt) ==
    IF attempt.provider = "ig_index" THEN attempt.held
    ELSE IF attempt.response.kind = "result" /\ attempt.response.value.kind = "PriceData"
    THEN [kind |-> "price", price |-> attempt.response.value.price]
    ELSE [kind |-> "none"]

\* C5: when exactly one provider of the asset class's priority list is ready
\* and that provider has a price above zero for the symbol, get_price returns
\* that provider's record.
C5_SurvivorServes ==
    \A k \in DOMAIN gp :
        (/\ gp[k].pc = "done"
         /\ Len(gp[k].providers) = 1
         /\ \E i \in 1..Len(provider_priority(gp[k].asset_type)) :
               provider_priority(gp[k].asset_type)[i] = gp[k].providers[1]
         /\ Len(gp[k].tried) = 1
         /\ Held(gp[k].tried[1]).kind = "price"
         /\ Held(gp[k].tried[1]).price > 0)
        => gp[k].result = PriceData(gp[k].symbol, Held(gp[k].tried[1]).price,
                                    gp[k].providers[1])

-----------------------------------------------------------------------------
(* Properties of get_bulk_prices (SpecBulk, SpecBulkLock).                 *)

\* C3: get_bulk_prices never fails as a whole: every call ends by returning
\* its per-symbol outcomes, also when it goes through the forced reconnect.
C3_BulkNeverFails ==
    \A b \in DOMAIN bulk : bulk[b].outcome # "raised"

\* C4: the result of get_bulk_prices is a list as long as the input list, and
\* the entry at index i is the outcome for the symbol at index i.
C4_PositionalResult ==
    \A b \in DOMAIN bulk :
        bulk[b].pc = "done" /\ bulk[b].outcome = "returned" =>
            /\ Len(bulk[b].ret.data) = Len(bulk[b].symbols)
            /\ \A i \in 1..Len(bulk[b].symbols) :
                  \/ bulk[b].ret.data[i] = NoneVal
                  \/ bulk[b].ret.data[i].symbol = bulk[b].symbols[i]

C8_BoundedFanOut ==
    LET limit == 10
    IN \A b \in DOMAIN bulk :
          Cardinality({j \in 1..Len(bulk[b].tasks) : bulk[b].tasks[j].pc = "awaiting"})
              <= limit

-----------------------------------------------------------------------------
(* Properties of the broker adapter (SpecIG, SpecDiscovery).               *)

\* C6: at most one session creation is in flight on the adapter at any time:
\* no two worker threads run create_session together.
C6_OneSessionCreation ==
    Cardinality({t \in DOMAIN igt : igt[t].thread = "create_session"}) <= 1

\* The active Directory row of a ticker, as _lookup_symbol_in_db finds it
DirectoryRows(ticker) ==
    {row \in stock_universe : row.symbol = Upper(ticker) /\ row.active}

\* C9: once discovery has returned a mapping for a ticker, the Directory
\* holds a row for that ticker.
C9_DiscoveryPersists ==
    \A t \in DOMAIN igt :
        igt[t].op = "discover" /\ igt[t].pc = "done" /\ igt[t].result.kind = "dict"
            => DirectoryRows(igt[t].arg) # {}

\* C10: discovery returns a mapping only if every step succeeded: the
\* metadata fetch gave metadata and the upsert wrote the mapping's row.
C10_EveryStepSucceeded ==
    \A t \in DOMAIN igt :
        igt[t].op = "discover" /\ igt[t].pc = "done" /\ igt[t].result.kind = "dict"
            => /\ igt[t].metadata.kind = "dict"
               /\ \E row \in DirectoryRows(igt[t].arg) : row.epic = igt[t].result.epic

-----------------------------------------------------------------------------
(* SpecRediscovery: discovery and the adapter's get_price, run twice.      *)

\* The Directory row of a Resolved ticker
ResolvedRow ==
    [symbol |-> <<"A", "A", "P", "L">>, epic |-> AAPL_EPIC, display_name |-> <<"A", "p", "p", "l", "e", " ", "I", "n", "c">>,
     asset_type |-> <<"s", "t", "o", "c", "k">>, active |-> TRUE]

\* The Directory before the calls: the ticker Unknown, or Resolved
Universes == {{}, {ResolvedRow}}

InitRediscovery ==
    \E auth, creds \in BOOLEAN, markets \in {OneMarket, NoMarket, ClosedMarket},
       universe \in Universes :
        /\ auth => creds
        /\ _initialized = TRUE
        /\ _provider_ready = AllReady
        /\ _request_stats = ZeroStats
        /\ _ig_lock = NoOwner
        /\ gp = <<>>
        /\ bulk = <<>>
        /\ authenticated = auth
        /\ ig_service \in SessionObjects(auth, creds)
        /\ _lock = NoOwner
        /\ stock_universe = universe
        /\ ig_credentials = creds
        /\ ig_markets = markets
        /\ igt = [t \in DiscoveryIds |-> IdleTask]
        /\ ServiceUp(TRUE)

NextRediscovery ==
    \E t \in DiscoveryIds :
        \/ IgStart(t, {"discover", "get_price"})
        \/ IgLockGranted(t)
        \/ IgCreateSession(t)
        \/ IgFetchAccounts(t)
        \/ IgSleepDone(t)
        \/ IgBrokerAnswer(t)

SpecRediscovery == InitRediscovery /\ [][NextRediscovery]_vars

\* All Directory rows of a ticker, active or not
AllRows(ticker) == {row \in stock_universe : row.symbol = Upper(ticker)}

\* C11: after two discoveries of one ticker, each of which returned the mapping
\* of the broker's single tradeable candidate, the Directory holds exactly one
\* row for the ticker, and its instrument code, display name and asset class
\* are those of the mapping.
C11_IdempotentDiscovery ==
    \A t1, t2 \in DOMAIN igt :
        (/\ t1 # t2
         /\ igt[t1].op = "discover" /\ igt[t1].pc = "done" /\ igt[t1].result.kind = "dict"
         /\ igt[t2].op = "discover" /\ igt[t2].pc = "done" /\ igt[t2].result.kind = "dict"
         /\ igt[t1].arg = igt[t2].arg)
        => /\ Cardinality(AllRows(igt[t1].arg)) = 1
           /\ \A row \in AllRows(igt[t1].arg) :
                 /\ row.epic = igt[t2].result.epic
                 /\ row.display_name = igt[t2].result.display_name
                 /\ row.asset_type = igt[t2].result.asset_type

\* C12: once two discoveries of the same ticker, unknown before, have each
\* returned a mapping, however their steps interleaved, the Directory holds
\* exactly one row keyed on the upper-cased ticker.
C12_ConcurrentDiscoveryOneRow ==
    \A t1, t2 \in DOMAIN igt :
        (/\ t1 # t2
         /\ igt[t1].op = "discover" /\ igt[t2].op = "discover"
         /\ igt[t1].arg = igt[t2].arg
         /\ igt[t1].pc = "done" /\ igt[t2].pc = "done"
         /\ igt[t1].result.kind = "dict" \/ igt[t2].result.kind = "dict")
        => Cardinality({row \in stock_universe : row.symbol = Upper(igt[t1].arg)}) = 1

\* C13: a get_price of the adapter for a ticker without a Directory row, made
\* with a session, does not return before it has started a discovery (so a
\* discovery that failed earlier is tried again); and a get_price call starts
\* at most one discovery, which leaves the Directory as it was when it fails.
C13_FailedDiscoveryRetried ==
    [][\A t \in DOMAIN igt :
          (/\ igt[t].pc = "idle"
           /\ igt'[t].op = "get_price"
           /\ authenticated /\ ig_service # "None"
           /\ DirectoryRows(igt'[t].arg) = {})
          => igt'[t].pc # "done"]_vars

-----------------------------------------------------------------------------
(* SpecLookup: the adapter's get_price from line 288 on, the Directory     *)
(* lookup and what lines 293-298 make of its answer, for a ticker Resolved *)
(* or Unknown.  A call that enters get_price at its first line ends at     *)
(* line 285 (SpecRediscovery); here the lines behind it run as written.    *)

\* Lines 288-293 of get_price: without a session None is returned; with one,
\* _lookup_symbol_in_db is awaited
GetPriceLookup(t) ==
    /\ igt[t].pc = "idle"
    /\ IgStep(t, AfterEnsure(t, [IdleTask EXCEPT !.op = "get_price", !.pc = "running",
                                                 !.arg = IgTicker, !.phase = "lookup"],
                             IgState, ig_credentials))

NextLookup ==
    \E t \in DiscoveryIds :
        \/ GetPriceLookup(t)
        \/ IgLockGranted(t)
        \/ IgCreateSession(t)
        \/ IgFetchAccounts(t)
        \/ IgSleepDone(t)
        \/ IgBrokerAnswer(t)

SpecLookup == InitRediscovery /\ [][NextLookup]_vars

-----------------------------------------------------------------------------
(* SpecNormalize: the record the adapter's get_price builds from a         *)
(* snapshot (lines 307-336), applied to drawn instrument codes and         *)
(* snapshots.                                                              *)

\* Instrument codes: spread-bet and CFD forex, commodity-flagged forex, index,
\* commodity future, metal future, equity with and without the daily suffix,
\* and a code of no listed class
NormalizeEpics ==
    {<<"C", "S", ".", "D", ".", "U", "S", "D", "J", "P", "Y", ".", "T", "O", "D", "A", "Y", ".", "I", "P">>, <<"C", "S", ".", "D", ".", "E", "U", "R", "U", "S", "D", ".", "T", "O", "D", "A", "Y", ".", "I", "P">>, <<"C", "S", ".", "D", ".", "E", "U", "R", "U", "S", "D", ".", "C", "F", "D", ".", "I", "P">>,
     <<"C", "S", ".", "D", ".", "C", "F", "D", "G", "O", "L", "D", ".", "C", "F", "D", "G", "C", ".", "I", "P">>, <<"I", "X", ".", "D", ".", "S", "P", "T", "R", "D", ".", "D", "A", "I", "L", "Y", ".", "I", "P">>, <<"C", "C", ".", "D", ".", "C", "L", ".", "U", "S", "S", ".", "I", "P">>,
     <<"M", "T", ".", "D", ".", "G", "C", ".", "M", "O", "N", "T", "H", "1", ".", "I", "P">>, AAPL_EPIC, AAPL_CASH_EPIC, <<"S", "I", ".", "D", "A", "I", "L", "Y", ".", "I", "P">>, <<"K", "A", ".", "D", ".", "X", "Y", "Z", ".", "C", "A", "S", "H", ".", "I", "P">>}

\* Snapshots the broker may return
Snapshots ==
    [kind : {"snapshot"}, bid : {NoneVal, Float(0), Float(15000), Float(108500)},
     offer : {NoneVal, Float(192345)},
     percentageChange : {NoneVal, Float(2)},
     netChange : {NoneVal, Float(-50), Float(300)}]

\* A pending construction of a record
RecordCall(epic, asset_type_str, market_data) ==
    [op |-> "price_record", pc |-> "idle", arg |-> IgTicker, epic |-> epic,
     asset_type_str |-> asset_type_str, market_data |-> market_data, result |-> NoneVal]

\* Lines 307-336 run on the inputs of the call
RecordBuilt(t) ==
    /\ igt[t].op = "price_record"
    /\ igt[t].pc = "idle"
    /\ igt' = [igt EXCEPT ![t] =
                 [igt[t] EXCEPT !.pc = "done",
                                !.result = IGIndexProvider_price_record(
                                    igt[t].arg, igt[t].epic, igt[t].asset_type_str,
                                    igt[t].market_data)]]
    /\ UNCHANGED <<authenticated, ig_service, _lock, stock_universe, ig_credentials,
                   ig_markets>>
    /\ UNCHANGED aggVars
    /\ UNCHANGED startVars

InitNormalize ==
    \E epic \in NormalizeEpics, asset_type_str \in {<<"s", "t", "o", "c", "k">>, <<"i", "n", "d", "e", "x">>, <<"I", "N", "D", "E", "X">>, <<"C", "r", "y", "p", "t", "o">>},
       market_data \in Snapshots :
        /\ _initialized = TRUE
        /\ _provider_ready = AllReady
        /\ _request_stats = ZeroStats
        /\ _ig_lock = NoOwner
        /\ gp = <<>>
        /\ bulk = <<>>
        /\ authenticated = TRUE
        /\ ig_service = "IGService"
        /\ _lock = NoOwner
        /\ stock_universe = {}
        /\ ig_credentials = TRUE
        /\ ig_markets = OneMarket
        /\ igt = <<RecordCall(epic, asset_type_str, market_data)>>
        /\ ServiceUp(TRUE)

NextNormalize == \E t \in {1} : RecordBuilt(t)

SpecNormalize == InitNormalize /\ [][NextNormalize]_vars

\* The raw price a record was built from (lines 315-319)
RawPrice(market_data) ==
    IF market_data.bid # NoneVal THEN market_data.bid.value ELSE market_data.offer.value

\* C15: the price of every record is the raw price divided by the factor of
\* the six-rule table, the rules taken in order: a spread-bet/CFD forex code
\* with a commodity keyword -> 1; a USD/JPY one -> 100; any other -> 10000;
\* an index, commodity-future or metal-future code -> 1; an equity prefix
\* with the daily suffix -> 100; anything else -> 1.
C15_SixRuleTable ==
    LET forex(epic) == StartsWith(epic, <<"C", "S", ".", "D", ".">>)
        factor(epic) ==
            IF forex(epic) /\ (IsSubstr(<<"G", "O", "L", "D">>, epic) \/ IsSubstr(<<"S", "I", "L", "V", "E", "R">>, epic)
                               \/ IsSubstr(<<"C", "O", "P", "P", "E", "R">>, epic)) THEN 1
            ELSE IF forex(epic) /\ IsSubstr(<<"U", "S", "D", "J", "P", "Y">>, epic) THEN 100
            ELSE IF forex(epic) THEN 10000
            ELSE IF StartsWith(epic, <<"I", "X", ".">>) \/ StartsWith(epic, <<"C", "C", ".", "D", ".">>)
                    \/ StartsWith(epic, <<"M", "T", ".", "D", ".">>) THEN 1
            ELSE IF StartsWithAny(epic, equity_prefixes) /\ EndsWith(epic, <<".", "D", "A", "I", "L", "Y", ".", "I", "P">>)
                 THEN 100
            ELSE 1
    IN \A t \in DOMAIN igt :
          igt[t].op = "price_record" /\ igt[t].pc = "done" /\ igt[t].result # NoneVal
              => SameQuotient(igt[t].result.price,
                              Quotient(RawPrice(igt[t].market_data), factor(igt[t].epic)))

-----------------------------------------------------------------------------
(* SpecReadiness: initialize and health_check of the aggregator under      *)
(* every configuration of the broker's credentials and the news key, what  *)
(* each call drew and returned being kept in readiness_log.                *)

InitReadiness ==
    /\ _initialized = FALSE
    /\ _provider_ready = [name \in Providers |-> FALSE]
    /\ _request_stats = ZeroStats
    /\ _ig_lock = NoOwner
    /\ gp = <<>>
    /\ bulk = <<>>
    /\ authenticated = FALSE
    /\ ig_service = "None"
    /\ _lock = NoOwner
    /\ stock_universe = {}
    /\ ig_credentials \in BOOLEAN
    /\ ig_markets = <<>>
    /\ igt = <<>>
    /\ finnhub \in [api_key : BOOLEAN, session : {FALSE}]
    /\ readiness_log = NoLog
    /\ init_run = IdleInit
    /\ hc_run = IdleCheck
    /\ startup = Serving
    /\ redis = CacheService_init

NextReadiness ==
    \/ InitializeObserved
    \/ HealthCheckObserved

SpecReadiness == InitReadiness /\ [][NextReadiness]_vars

\* C17: after a health_check of the initialized aggregator the returned map
\* has one boolean per provider, every ready flag equals its entry, and the
\* entry is true exactly when the provider's probe succeeded (the macro
\* adapter has no probe and counts as succeeding; under the aggregate timeout
\* no probe succeeded): the unhealthy ones are exactly those whose probe did
\* not succeed, a ready one whose probe failed is now not-ready and a
\* not-ready one whose probe succeeded is now ready.
C17_ReadinessFollowsHealthCheck ==
    readiness_log.op = "health_check" /\ readiness_log.initialized =>
        LET o == readiness_log.outcome
            returned == readiness_log.returned
            Succeeded(name) ==
                /\ ~o.timed_out
                /\ CASE name = "fred" -> TRUE
                     [] name = "ig_index" -> readiness_log.ig = "healthy"
                     [] name = "finnhub" -> readiness_log.news /\ o.probe[name]
                     [] OTHER -> o.probe[name]
        IN /\ DOMAIN returned = Providers
           /\ \A name \in Providers :
                /\ returned[name] \in BOOLEAN
                /\ _provider_ready[name] = returned[name]
                /\ returned[name] <=> Succeeded(name)
                /\ readiness_log.before[name] /\ ~Succeeded(name) => ~_provider_ready[name]
                /\ ~readiness_log.before[name] /\ Succeeded(name) => _provider_ready[name]

\* A health check after which two of the three price providers are reported
\* unhealthy, one of them having been ready, and one provider has recovered
C17_Witness ==
    /\ readiness_log.op = "health_check"
    /\ readiness_log.initialized
    /\ {name \in {"binance", "mexc", "ig_index"} : ~readiness_log.returned[name]}
         = {"mexc", "ig_index"}
    /\ readiness_log.before["mexc"]
    /\ ~readiness_log.before["binance"]
    /\ _provider_ready["binance"]
    /\ ~_provider_ready["mexc"]

\* The steps of initialize and of its tasks, once it has been called, are
\* taken: the event loop runs every task, and the 60 s of the wait_for pass
SpecReadinessFair ==
    /\ SpecReadiness
    /\ WF_vars(init_run.pc # "idle" /\ InitializeObserved)

\* C18: no step of initialize changes a ready flag other than to make ready
\* the adapter whose task just completed the self-test, before the timeout
\* or after it (the broker adapter never completes it: its functional test
\* gets no record); an adapter whose task was cancelled by the timeout is
\* left as it was; the return marks the aggregator initialized; and an
\* initialize that was called returns.
C18_InitializeAlwaysCompletes ==
    /\ [][init_run' # init_run
            => LET completed(name) ==
                     /\ readiness_log'.op = "initialize_task"
                     /\ readiness_log'.name = name
                     /\ readiness_log'.passed
                     /\ name # "ig_index"
                     /\ name = "finnhub" => finnhub.api_key
               IN /\ \A name \in Providers :
                       _provider_ready'[name] = (_provider_ready[name] \/ completed(name))
                  /\ init_run'.pc = "idle" => _initialized']_vars
    /\ (init_run.pc # "idle") ~> (init_run.pc = "idle" /\ _initialized)

\* An initialize returned at its timeout and left the aggregator partially
\* ready: one exchange completed its self-test after the cancellation had
\* begun, the task of the other was cancelled, and the broker's was cancelled
\* inside create_session
C18_Witness ==
    /\ readiness_log.op = "initialize"
    /\ _initialized
    /\ readiness_log.timed_out
    /\ readiness_log.cancelled = {"mexc", "ig_index"}
    /\ readiness_log.late = {"binance"}
    /\ _lock = NoOwner
    /\ _provider_ready["binance"]
    /\ ~_provider_ready["mexc"]
    /\ ~_provider_ready["ig_index"]
    /\ ~authenticated
    /\ ig_service = "IGService"

\* C19: the broker adapter without its credentials and the news adapter
\* without its key are never ready, whatever initialize and health_check
\* calls have been made.
C19_MissingKeyNeverReady ==
    /\ ~ig_credentials => ~_provider_ready["ig_index"]
    /\ ~finnhub.api_key => ~_provider_ready["finnhub"]

\* Both are missing, the aggregator was initialized and then health-checked
\* with the news service answering, and another provider is ready
C19_Witness ==
    /\ ~ig_credentials
    /\ ~finnhub.api_key
    /\ readiness_log.op = "health_check"
    /\ readiness_log.initialized
    /\ ~readiness_log.outcome.timed_out
    /\ readiness_log.outcome.probe["finnhub"]
    /\ _provider_ready["binance"]
    /\ ~_provider_ready["ig_index"]
    /\ ~_provider_ready["finnhub"]

-----------------------------------------------------------------------------
(* SpecStartup: the loading of the service.  config/settings.py builds the *)
(* settings object from the environment, then app/main.py imports the      *)
(* aggregator's module (which imports every adapter's module) and          *)
(* constructs the aggregator.  The specifications above start from a       *)
(* constructed aggregator.                                                 *)

\* The fields class Settings declares
Settings_fields ==
    {"host", "port", "workers", "log_level", "redis_url", "ig_username", "ig_password",
     "ig_api_key", "ig_acc_type", "finnhub_api_key", "tg_bot_token", "tg_chat_id",
     "telegram_enabled", "crypto_cache_ttl", "traditional_cache_ttl", "news_cache_ttl"}

\* The credentials and keys the environment (or .env) may give, named as the
\* settings attribute each would fill
KeyNames == {"ig_username", "ig_password", "ig_api_key", "finnhub_api_key", "fred_api_key"}

\* The environments the service may be started in
Environments == [keys : SUBSET KeyNames, ig_acc_type : {"LIVE", "DEMO"}]

\* Settings(): every declared field takes the environment's value or its
\* default; with extra = "ignore" a variable that names no declared field is
\* dropped.  present: the fields that hold a non-empty value.  The default is
\* None for the keys and the two tg_ fields, and a non-empty value for the
\* others; the environments drawn give those others no empty value.
Settings(env) ==
    LET defaults == {"host", "port", "workers", "log_level", "redis_url", "ig_acc_type",
                     "telegram_enabled", "crypto_cache_ttl", "traditional_cache_ttl",
                     "news_cache_ttl"}
    IN [present |-> (env.keys \cap Settings_fields) \cup defaults,
        ig_acc_type |-> env.ig_acc_type]

AttributeError == [kind |-> "Exception", type |-> "AttributeError"]
ValueError == [kind |-> "Exception", type |-> "ValueError"]

\* settings.<name>: whether the attribute holds a non-empty value, or the
\* AttributeError of a name that is not a field
settings_getattr(s, name) ==
    IF name \notin Settings_fields THEN AttributeError
    ELSE [kind |-> "value", value |-> name \in s.present]

\* fred_service.py line 13: the default of api_key is evaluated when the
\* class body runs, that is when the module is imported
FredService_api_key_default(s) == settings_getattr(s, "fred_api_key")

\* FredService.__init__ (lines 14-16)
FredService_init(api_key) == IF ~api_key THEN ValueError ELSE NoneVal

\* config/settings.py line 52: settings = Settings()
LoadSettings ==
    /\ startup.pc = "start"
    /\ startup' = [startup EXCEPT !.pc = "settings", !.settings = Settings(startup.env)]
    /\ UNCHANGED <<finnhub, readiness_log, init_run, hc_run, redis>>
    /\ UNCHANGED aggVars
    /\ UNCHANGED igVars

\* app/main.py lines 10 and 33: the import of services.aggregator, which imports
\* the adapters' modules in turn (aggregator.py lines 9-13), and the
\* construction of the aggregator
LoadMain ==
    /\ startup.pc = "settings"
    /\ LET default == FredService_api_key_default(startup.settings)
           error == IF default.kind = "Exception" THEN default
                    ELSE FredService_init(default.value)
           constructed == error = NoneVal
       IN /\ startup' = [startup EXCEPT !.pc = "done", !.error = error]
          /\ finnhub' =
               IF constructed
               THEN [api_key |-> settings_getattr(startup.settings, "finnhub_api_key").value,
                     session |-> FALSE]
               ELSE finnhub
          /\ ig_credentials' =
               IF constructed
               THEN \A name \in {"ig_username", "ig_password", "ig_api_key"} :
                        settings_getattr(startup.settings, name).value
               ELSE ig_credentials
    /\ UNCHANGED <<readiness_log, init_run, hc_run, redis>>
    /\ UNCHANGED aggVars
    /\ UNCHANGED <<authenticated, ig_service, _lock, stock_universe, ig_markets, igt>>

InitStartup ==
    \E env \in Environments :
        /\ _initialized = FALSE
        /\ _provider_ready = [name \in Providers |-> FALSE]
        /\ _request_stats = ZeroStats
        /\ _ig_lock = NoOwner
        /\ gp = <<>>
        /\ bulk = <<>>
        /\ authenticated = FALSE
        /\ ig_service = "None"
        /\ _lock = NoOwner
        /\ stock_universe = {}
        /\ ig_credentials = FALSE
        /\ ig_markets = <<>>
        /\ igt = <<>>
        /\ finnhub = [api_key |-> FALSE, session |-> FALSE]
        /\ readiness_log = NoLog
        /\ init_run = IdleInit
        /\ hc_run = IdleCheck
        /\ redis = CacheService_init
        /\ startup = [pc |-> "start", env |-> env, settings |-> NoneVal, error |-> NoneVal]

NextStartup ==
    \/ LoadSettings
    \/ LoadMain

SpecStartup == InitStartup /\ [][NextStartup]_vars

\* C20: when the environment lacks the credentials or key of at most one
\* adapter (broker, news or macro-series), the service loads and the
\* aggregator is constructed without an error.
C20_MissingKeyDoesNotStop ==
    LET required ==
            [a \in {"ig_index", "finnhub", "fred"} |->
                CASE a = "ig_index" -> {"ig_username", "ig_password", "ig_api_key"}
                  [] a = "finnhub" -> {"finnhub_api_key"}
                  [] OTHER -> {"fred_api_key"}]
        absent == {a \in DOMAIN required : ~(required[a] \subseteq startup.env.keys)}
    IN startup.pc = "done" /\ Cardinality(absent) <= 1 => startup.error = NoneVal

-----------------------------------------------------------------------------
(* SpecCache: single-price requests served while the key-value store holds *)
(* price records for some of the requested symbols, and CacheService is    *)
(* connected, written to and read.                                         *)

\* CacheService.get.  client: self.redis is bound (lines 31-32 return None
\* when it is not); answers: the store answers the GET, where it does not the
\* handler of lines 39-40 logs and None is returned.  A value that is the
\* JSON text set() wrote is parsed back to the record it was written from
\* (lines 37-38); any other text fails json.loads or the validation of
\* PriceData and ends in the same handler.
CacheService_get(client, store, key, answers) ==
    IF ~client THEN NoneVal
    ELSE IF ~answers THEN NoneVal
    ELSE IF \E e \in store : e.key = key
         THEN LET data == (CHOOSE e \in store : e.key = key).value
              IN IF data.kind = "PriceData" THEN data ELSE NoneVal
         ELSE NoneVal

\* CacheService.set from its first line to the await of line 51: the SETEX
\* it sends through the client it read, or None when nothing is sent: without
\* a client (lines 46-47), or when the argument has no model_dump_json (the
\* routers pass a dict; the handler of lines 52-53 logs the AttributeError)
CacheService_set(client, key, price_data) ==
    IF ~client \/ price_data.kind # "PriceData" THEN NoneVal
    ELSE [kind |-> "setex", key |-> key, value |-> price_data]

\* What the store holds after a SETEX: the entry under the key is replaced,
\* unless the store refused the request (handler of lines 52-53)
Setex(store, request, answers) ==
    IF ~answers THEN store
    ELSE {e \in store : e.key # request.key}
         \cup {[key |-> request.key, value |-> request.value]}

\* The entries the store may hold: one record per requested symbol, and a
\* text that is no record, written by another client of the store
CacheEntries ==
    {[key |-> symbol, value |-> PriceData(symbol, 7, "binance")] : symbol \in PriceSymbols}
    \cup {[key |-> WAI, value |-> [kind |-> "text"]]}

\* The contents the store may have when the service starts: at most one
\* entry under a key
CacheContents ==
    {store \in SUBSET CacheEntries :
        \A e1, e2 \in store : e1.key = e2.key => e1 = e2}

InitCache ==
    \E ready \in {AllReady, BinanceOnly}, store \in CacheContents :
        /\ _initialized = TRUE
        /\ _provider_ready = ready
        /\ _request_stats = ZeroStats
        /\ _ig_lock = NoOwner
        /\ gp = <<IdleCall>>
        /\ bulk = <<>>
        /\ authenticated = ready["ig_index"]
        /\ ig_service = IF ready["ig_index"] THEN "IGService" ELSE "None"
        /\ _lock = NoOwner
        /\ stock_universe = {}
        /\ ig_credentials = ready["ig_index"]
        /\ ig_markets = <<>>
        /\ igt = <<>>
        /\ finnhub = [api_key |-> TRUE, session |-> TRUE]
        /\ readiness_log = NoLog
        /\ init_run = IdleInit
        /\ hc_run = IdleCheck
        /\ startup = Serving
        /\ redis = [CacheService_init EXCEPT !.store = store]

\* CacheService.connect, lines 17-23: the client is bound and the call
\* suspends at the ping.  Calls of connect are taken one at a time.
CacheService_connect_begin ==
    /\ redis.connect = "idle"
    /\ redis' = [redis EXCEPT !.client = TRUE, !.connect = "ping"]
    /\ UNCHANGED <<finnhub, readiness_log, init_run, hc_run, startup>>
    /\ UNCHANGED aggVars
    /\ UNCHANGED igVars

\* CacheService.connect, lines 23-27: the ping answered, or it raised and the
\* handler sets self.redis to None
CacheService_connect_end(ping_ok) ==
    /\ redis.connect = "ping"
    /\ redis' = [redis EXCEPT !.client = ping_ok, !.connect = "idle"]
    /\ UNCHANGED <<finnhub, readiness_log, init_run, hc_run, startup>>
    /\ UNCHANGED aggVars
    /\ UNCHANGED igVars

\* A call of CacheService.set(key, price_data, ttl) runs to the await of
\* line 51, or returns.  Calls of set are taken one at a time.
CacheSet(key, price_data) ==
    /\ redis.setex = NoneVal
    /\ redis' = [redis EXCEPT !.setex = CacheService_set(redis.client, key, price_data)]
    /\ UNCHANGED <<finnhub, readiness_log, init_run, hc_run, startup>>
    /\ UNCHANGED aggVars
    /\ UNCHANGED igVars

\* Lines 51-53: the store answers the SETEX that a call of set is awaiting,
\* whatever has become of self.redis since, or refuses it
CacheSetexAnswer(answers) ==
    /\ redis.setex # NoneVal
    /\ redis' = [redis EXCEPT !.store = Setex(@, redis.setex, answers),
                              !.setex = NoneVal]
    /\ UNCHANGED <<finnhub, readiness_log, init_run, hc_run, startup>>
    /\ UNCHANGED aggVars
    /\ UNCHANGED igVars

\* The ttl that SETEX gave an entry has passed: the store drops the entry
CacheExpire(key) ==
    /\ \E e \in redis.store : e.key = key /\ e.value.kind = "PriceData"
    /\ redis' = [redis EXCEPT !.store = {e \in @ : e.key # key}]
    /\ UNCHANGED <<finnhub, readiness_log, init_run, hc_run, startup>>
    /\ UNCHANGED aggVars
    /\ UNCHANGED igVars

NextCache ==
    \/ \E k \in {1} : GpCall(k)
    \/ \E k \in {1} : GpRespond(k)
    \/ CacheService_connect_begin
    \/ \E ping_ok \in BOOLEAN : CacheService_connect_end(ping_ok)
    \/ \E e \in CacheEntries \cup {[key |-> WAI, value |-> [kind |-> "dict"]]} :
         CacheSet(e.key, e.value)
    \/ \E answers \in BOOLEAN : CacheSetexAnswer(answers)
    \/ \E key \in PriceSymbols : CacheExpire(key)

SpecCache == InitCache /\ [][NextCache]_vars

\* C22: a get_price call that ends with no provider having given a valid
\* record, for a symbol of which CacheService.get gives a record as the call
\* ends (the client is connected and the store answers with the record),
\* returns that record.
C22_StaleCacheFallback ==
    [][\A k \in DOMAIN gp :
          LET cached == CacheService_get(redis.client, redis.store, gp'[k].symbol, TRUE)
          IN (/\ gp'[k] # gp[k]
              /\ gp'[k].pc = "done"
              /\ \A i \in 1..Len(gp'[k].tried) :
                    ~(gp'[k].tried[i].response.kind = "result"
                      /\ IsValidResult(gp'[k].tried[i].response.value))
              /\ cached # NoneVal)
             => /\ gp'[k].outcome = "returned"
                /\ gp'[k].result = cached]_vars

-----------------------------------------------------------------------------
(* SpecClassify: the classifier as a pure function, applied to drawn       *)
(* symbols, twice each.                                                    *)

\* The currency codes of the classifier, as a set
CurrencyCodes == ToSet(forex_pairs)

\* Symbols of the other classes: index tickers, bare and under the '^' the
\* quote services put before an index, a commodity and an equity
OtherClassInputs ==
    {SPY, <<"^", "F", "T", "S", "E">>, <<"^", "G", "S", "P", "C">>, <<"^", "v", "i", "x">>, GOLD, AAPL}

\* The symbols classified: the supported crypto tickers, bare and with the
\* '$' prefix in lower case, the pairs of two distinct currency codes, and
\* the symbols of the other classes
ClassifyInputs ==
    OtherClassInputs \cup
    ToSet(crypto_symbols)
    \cup {<<"$">> \o Lower(c) : c \in ToSet(crypto_symbols)}
    \cup {pair[1] \o pair[2] :
             pair \in {p \in CurrencyCodes \X CurrencyCodes : p[1] # p[2]}}

\* A pending classification; seen holds the classes returned so far
ClassifyCall(symbol) ==
    [op |-> "classify", pc |-> "idle", arg |-> symbol, seen |-> <<>>]

\* One call of _detect_asset_type(symbol)
Classify(t) ==
    /\ igt[t].op = "classify"
    /\ Len(igt[t].seen) < 2
    /\ igt' = [igt EXCEPT ![t] =
                 [igt[t] EXCEPT !.pc = IF Len(igt[t].seen) = 1 THEN "done" ELSE "called",
                                !.seen = Append(@, _detect_asset_type(igt[t].arg))]]
    /\ UNCHANGED <<authenticated, ig_service, _lock, stock_universe, ig_credentials,
                   ig_markets>>
    /\ UNCHANGED aggVars
    /\ UNCHANGED startVars

InitClassify ==
    \E symbol \in ClassifyInputs :
        /\ _initialized = TRUE
        /\ _provider_ready = AllReady
        /\ _request_stats = ZeroStats
        /\ _ig_lock = NoOwner
        /\ gp = <<>>
        /\ bulk = <<>>
        /\ authenticated = TRUE
        /\ ig_service = "IGService"
        /\ _lock = NoOwner
        /\ stock_universe = {}
        /\ ig_credentials = TRUE
        /\ ig_markets = <<>>
        /\ igt = <<ClassifyCall(symbol)>>
        /\ ServiceUp(TRUE)

NextClassify == \E t \in {1} : Classify(t)

SpecClassify == InitClassify /\ [][NextClassify]_vars

\* C23: every supported crypto ticker is classified CRYPTO, every six-letter
\* symbol made of two distinct currency codes is classified FOREX, and two
\* calls with the same symbol return the same class.
C23_ClassifierCryptoAndForex ==
    \A t \in DOMAIN igt :
        igt[t].op = "classify" =>
            \A i \in 1..Len(igt[t].seen) :
                /\ igt[t].seen[i] = igt[t].seen[1]
                /\ Upper(RemoveChar(igt[t].arg, "$")) \in ToSet(crypto_symbols)
                     => igt[t].seen[i] = "crypto"
                /\ (\E a \in CurrencyCodes, b \in CurrencyCodes : a # b /\ igt[t].arg = a \o b)
                     => igt[t].seen[i] = "forex"


\* C24: whenever a bulk call with broker-routed symbols takes the broker
\* lock, it goes on into the forced reconnect, a new session requested
\* whatever `authenticated` was: the step that takes it past the fan-out,
\* the adapter authenticated and the lock free, leaves it inside initialize.
C24_BatchStartsWithReconnect ==
    [][\A b \in DOMAIN bulk :
          /\ bulk[b].pc \in {"idle", "gather"}
          /\ bulk'[b].pc \notin {"idle", "gather", "ig_wait"}
          /\ bulk'[b].ig_symbols # <<>>
          /\ authenticated
              => bulk'[b].pc = "ig_reconnect"]_vars


\* The providers a get_price call attempted, in order
TriedProviders(call) == [i \in 1..Len(call.tried) |-> call.tried[i].provider]

\* C25: in a bulk call, a symbol whose get_price ended without a record was
\* tried once at every ready provider of its priority list, the secondary
\* ones after the primary, and a symbol is listed as failed only after that.
C25_FailedSymbolTriedAtSecondaries ==
    \A b \in DOMAIN bulk :
        /\ \A j \in 1..Len(bulk[b].tasks) :
              LET call == bulk[b].tasks[j]
              IN call.pc = "done" /\ call.result = NoneVal
                    => TriedProviders(call)
                         = _get_providers_for_symbol(call.asset_type, _provider_ready)
        /\ bulk[b].pc = "done" /\ bulk[b].outcome = "returned"
              => \A i \in 1..Len(bulk[b].ret.failed_symbols) :
                    \E j \in 1..Len(bulk[b].tasks) :
                        /\ bulk[b].tasks[j].symbol = bulk[b].ret.failed_symbols[i]
                        /\ bulk[b].tasks[j].pc = "done"
                        /\ TriedProviders(bulk[b].tasks[j])
                             = _get_providers_for_symbol(bulk[b].tasks[j].asset_type,
                                                         _provider_ready)

\* A bulk call has returned with WAI failed after no data from the primary
\* exchange and one attempt at the secondary
C25_Witness ==
    \E b \in DOMAIN bulk :
        /\ bulk[b].pc = "done"
        /\ bulk[b].outcome = "returned"
        /\ \E i \in 1..Len(bulk[b].ret.failed_symbols) : bulk[b].ret.failed_symbols[i] = WAI
        /\ \E j \in 1..Len(bulk[b].tasks) :
              /\ bulk[b].tasks[j].symbol = WAI
              /\ TriedProviders(bulk[b].tasks[j]) = <<"binance", "mexc">>


\* C26: a bulk call whose crypto symbols go to the crypto exchange adapter
\* makes one request to that exchange, however many symbols there are.
C26_OneExchangeCallPerGroup ==
    \A b \in DOMAIN bulk :
        bulk[b].pc # "idle" /\ Len(bulk[b].other_symbols) >= 1
            => _request_stats.provider_stats["binance"].requests <= 1

-----------------------------------------------------------------------------
(* SpecBulkLockFair: SpecBulkLock with the scheduling of the event loop: a *)
(* call that has started and can take a step (an adapter's answer or the   *)
(* timeout of its HTTP session, the return of gather with the broker       *)
(* section that follows it) takes one.  Whether a call starts at all is    *)
(* the caller's choice and carries no fairness.  The first step of the     *)
(* tasks of a fan-out is weakly fair as well; its fairness is written with *)
(* the condition that enables it.                                          *)

\* The tasks of call b have been made and none has run: the condition under
\* which BulkTasksStart(b) can be taken
TasksNotStarted(b) ==
    /\ bulk[b].pc = "gather"
    /\ \E j \in DOMAIN bulk[b].tasks : bulk[b].tasks[j].pc = "not_started"

BulkStep(b) ==
    \/ \E j \in DOMAIN bulk[b].tasks : BulkTaskRespond(b, j)
    \/ \E j \in DOMAIN bulk[b].tasks : BulkTaskTimeout(b, j)
    \/ BulkGathered(b)

SpecBulkLockFair ==
    /\ InitBulkLock
    /\ [][NextBulkLock]_vars
    /\ \A b \in BulkIds : WF_vars(BulkStep(b))
    /\ \A b \in BulkIds : <>[]TasksNotStarted(b) => []<><<BulkTasksStart(b)>>_vars

-----------------------------------------------------------------------------
(* The bulk response as a partition of the distinct input symbols.         *)

\* The symbols of the records in a response's data list
DataSymbols(ret) == {ret.data[i].symbol : i \in 1..Len(ret.data)}

\* C28: a started bulk call holds each distinct input symbol once and has one
\* get_price task for each distinct symbol not routed to the broker; in the
\* response it returns, every distinct input symbol is in exactly one of the
\* data list and failed_symbols, and neither list repeats a symbol.
C28_EachSymbolOnceAndInOneList ==
    \A b \in DOMAIN bulk :
        /\ bulk[b].pc # "idle"
              => /\ ToSet(bulk[b].unique_symbols) = ToSet(bulk[b].symbols)
                 /\ Len(bulk[b].unique_symbols) = Cardinality(ToSet(bulk[b].symbols))
                 /\ bulk[b].other_symbols
                       = SelectSeq2(bulk[b].unique_symbols,
                                    ToSet(bulk[b].symbols) \ ToSet(bulk[b].ig_symbols))
                 /\ Len(bulk[b].tasks) = Len(bulk[b].other_symbols)
                 /\ \A j \in 1..Len(bulk[b].tasks) :
                        bulk[b].tasks[j].symbol = bulk[b].other_symbols[j]
        /\ bulk[b].pc = "done" /\ bulk[b].outcome = "returned"
              => /\ DataSymbols(bulk[b].ret) \cap ToSet(bulk[b].ret.failed_symbols) = {}
                 /\ DataSymbols(bulk[b].ret) \cup ToSet(bulk[b].ret.failed_symbols)
                       = ToSet(bulk[b].symbols)
                 /\ Len(bulk[b].ret.data) + Len(bulk[b].ret.failed_symbols)
                       = Cardinality(ToSet(bulk[b].symbols))

\* A call given WAI twice and one more symbol has returned with one symbol
\* priced and the other failed
C28_Witness ==
    \E b \in DOMAIN bulk :
        /\ bulk[b].pc = "done"
        /\ bulk[b].outcome = "returned"
        /\ Len(bulk[b].symbols) > Cardinality(ToSet(bulk[b].symbols))
        /\ Len(bulk[b].ret.data) = 1
        /\ Len(bulk[b].ret.failed_symbols) = 1

-----------------------------------------------------------------------------
(* SpecLifetime: the aggregator from construction on, under every          *)
(* operation of its interface: initialize, health_check, close, and a bulk *)
(* request whose get_price tasks write the counters.                       *)

\* The bulk request of SpecLifetime: a crypto symbol beside a broker-routed one
ServingBulk == <<WAI, AAPL>>

\* DataAggregator.close: every adapter that has a close is closed.  The news
\* adapter drops its HTTP session; no field of the aggregator is written.
DataAggregator_close ==
    /\ finnhub' = [finnhub EXCEPT !.session = FALSE]
    /\ UNCHANGED <<_initialized, _provider_ready, _request_stats, _ig_lock, gp, bulk,
                   readiness_log, init_run, hc_run, startup, redis>>
    /\ UNCHANGED igVars

InitLifetime ==
    /\ _initialized = FALSE
    /\ _provider_ready = [name \in Providers |-> FALSE]
    /\ _request_stats = ZeroStats
    /\ _ig_lock = NoOwner
    /\ gp = <<>>
    /\ bulk = <<IdleBulk(ServingBulk)>>
    /\ authenticated = FALSE
    /\ ig_service = "None"
    /\ _lock = NoOwner
    /\ stock_universe = {}
    /\ ig_credentials = TRUE
    /\ ig_markets = <<>>
    /\ igt = <<>>
    /\ ServiceUp(FALSE)

NextLifetime ==
    \/ LifespanInitialize
    \/ HealthCheck
    \/ DataAggregator_close
    \/ \E b \in {1} :
        \/ BulkCall(b)
        \/ BulkTasksStart(b)
        \/ \E j \in DOMAIN bulk[b].tasks : BulkTaskRespond(b, j)
        \/ \E j \in DOMAIN bulk[b].tasks : BulkTaskTimeout(b, j)
        \/ BulkGathered(b)

SpecLifetime == InitLifetime /\ [][NextLifetime]_vars

\* C21: no step of a get_price or get_bulk_prices call changes a ready flag;
\* a step that changes the readiness map belongs to neither.
C21_PriceRequestsKeepReadiness ==
    [][(gp' # gp \/ bulk' # bulk) => _provider_ready' = _provider_ready]_vars

\* A bulk call has ended whose get_price task met a timeout at a ready
\* provider and whose broker section raised, the providers they tried being
\* ready still
C21_Witness ==
    /\ bulk[1].pc = "done"
    /\ bulk[1].outcome = "raised"
    /\ _provider_ready["ig_index"]
    /\ \E j \in 1..Len(bulk[1].tasks) :
       \E i \in 1..Len(bulk[1].tasks[j].tried) :
         /\ bulk[1].tasks[j].tried[i].response.kind = "TimeoutError"
         /\ _provider_ready[bulk[1].tasks[j].tried[i].provider]

\* C29: no step lowers a counter of _request_stats: the three totals and
\* each provider's requests and successes stay or grow.
C29_CountersNeverDecrease ==
    [][/\ _request_stats'.total_requests >= _request_stats.total_requests
       /\ _request_stats'.successful_requests >= _request_stats.successful_requests
       /\ _request_stats'.failed_requests >= _request_stats.failed_requests
       /\ \A p \in Providers :
            /\ _request_stats'.provider_stats[p].requests
                  >= _request_stats.provider_stats[p].requests
            /\ _request_stats'.provider_stats[p].successes
                  >= _request_stats.provider_stats[p].successes]_vars

\* Counters have been raised by a request, and the service has since been
\* closed after an initialize that opened the news adapter's session
C29_Witness ==
    /\ _request_stats.total_requests > 0
    /\ _request_stats.successful_requests + _request_stats.failed_requests > 0
    /\ \E p \in Providers : _request_stats.provider_stats[p].requests > 0
    /\ _initialized
    /\ ~finnhub.session
    /\ \E b \in DOMAIN bulk : bulk[b].pc = "done"

-----------------------------------------------------------------------------
(* Readiness and the initialization self-test.                             *)

\* SpecSelfTest: initialize and health_check as in SpecReadiness, the
\* providers that have passed the self-test being kept
NextSelfTest ==
    \/ InitializeSelfTested
    \/ HealthCheck

SpecSelfTest == InitReadiness /\ [][NextSelfTest]_vars

\* C30: a provider that is ready passed the self-test of initialize (its
\* initialize did not return False, its health_check returned true and its
\* functional test returned valid data); health_check gives readiness to no
\* provider that did not.
C30_ReadyOnlyAfterSelfTest ==
    \A name \in Providers : _provider_ready[name] => name \in SelfTested

-----------------------------------------------------------------------------
(* The broker route of get_price (Spec).                                   *)

\* C31: a get_price call for a non-crypto symbol that attempted the ready
\* broker adapter while the session was active and the broker held a price
\* above zero for the symbol returns the record of source ig_index with that
\* price.
C31_BrokerRouteReturnsRecord ==
    \A k \in DOMAIN gp :
        (/\ gp[k].pc = "done"
         /\ gp[k].asset_type # "crypto"
         /\ authenticated
         /\ \E i \in 1..Len(gp[k].tried) :
               /\ gp[k].tried[i].provider = "ig_index"
               /\ gp[k].tried[i].held.kind = "price"
               /\ gp[k].tried[i].held.price > 0)
        => /\ gp[k].outcome = "returned"
           /\ gp[k].result.kind = "PriceData"
           /\ gp[k].result.source = "ig_index"
           /\ \E i \in 1..Len(gp[k].tried) :
                 /\ gp[k].tried[i].provider = "ig_index"
                 /\ gp[k].result.price = gp[k].tried[i].held.price

-----------------------------------------------------------------------------
(* The session probe and the renewal of a dead session (SpecIG).           *)

\* The stages of _ensure_session_is_active and of the initialize it calls
EnsureStages == {"fetch_accounts", "lock_wait", "create_session"}

\* C32: a task whose probe raised a ConnectionError, an HTTPError or an error
\* whose message holds 'security' or 'token' leaves the adapter
\* unauthenticated at that step and goes on to initialize; when it leaves the
\* session check it either is authenticated on an existing session and
\* serves the request, or is unauthenticated and returns without any fetch
\* at the broker.
C32_DeadSessionRenewed ==
    [][\A t \in IgIds :
         LET e == igt'[t].probe
             dead == /\ e.kind = "raise"
                     /\ \/ e.class \in {"ConnectionError", "HTTPError"}
                        \/ e.message \in {<<"b", "a", "d", " ", "T", "o", "k", "e", "n">>, <<"S", "E", "C", "U", "R", "I", "T", "Y">>}
         IN /\ (igt[t].pc = "fetch_accounts" /\ igt'[t].pc # "fetch_accounts" /\ dead)
                 => /\ ~authenticated'
                    /\ \/ igt'[t].pc \in {"lock_wait", "create_session"}
                       \/ igt'[t].pc = "done" /\ ~ig_credentials
            /\ (igt[t].pc \in EnsureStages /\ igt'[t].pc \notin EnsureStages /\ dead)
                 => IF authenticated'
                    THEN igt'[t].pc \in {"calling", "sleeping"} /\ ig_service' # "None"
                    ELSE /\ igt'[t].pc = "done"
                         /\ \/ igt'[t].result.kind = "None"
                            \/ igt'[t].result.kind = "list" /\ igt'[t].result.rows = <<>>]_vars

\* A search whose probe failed on a dead session is at the broker again on
\* the renewed session
C32_Witness ==
    \E t \in DOMAIN igt :
        /\ igt[t].probe.kind = "raise"
        /\ igt[t].probe.class = "Exception"
        /\ igt[t].probe.message = <<"b", "a", "d", " ", "T", "o", "k", "e", "n">>
        /\ igt[t].op = "search"
        /\ igt[t].pc = "calling"
        /\ authenticated

-----------------------------------------------------------------------------
(* SpecSelect: steps 2 and 3 of _discover_and_enhance_symbol as a function *)
(* of the rows the search returned.                                        *)

\* rows in one search result
MaxRows == 3

\* The codes of the rows, by their place in the result
RowEpics == <<<<"E", "1">>, <<"E", "2">>, <<"E", "3">>, <<"E", "4">>>>

\* The rows a search for "aapl" may return at place i: named as the search
\* term up to case or otherwise, tradeable or not, streaming or not
RowsAt(i) ==
    {Row(RowEpics[i], name, status, streaming) :
        name \in {<<"A", "a", "p", "l">>, <<"A", "p", "p", "l", "e">>}, status \in {"TRADEABLE", "CLOSED"},
        streaming \in BOOLEAN}

SearchResults ==
    UNION {{rows \in [1..n -> UNION {RowsAt(i) : i \in 1..n}] :
               \A i \in 1..n : rows[i] \in RowsAt(i)} : n \in 0..MaxRows}

\* A discovery that has its search result and has not selected yet
SelectCall(ticker, rows) ==
    [op |-> "select", pc |-> "idle", arg |-> ticker, rows |-> rows, result |-> NoneVal]

\* Lines 168-193: the candidates are filtered and the best match is selected
Select(t) ==
    /\ igt[t].op = "select"
    /\ igt[t].pc = "idle"
    /\ LET search_term == Upper(igt[t].arg)
           candidates == Candidates(igt[t].rows)
       IN igt' = [igt EXCEPT ![t] =
                    [igt[t] EXCEPT !.pc = "done",
                                   !.result = IF igt[t].rows = <<>> \/ candidates = <<>>
                                              THEN NoneVal
                                              ELSE BestMatch(candidates, search_term)]]
    /\ UNCHANGED <<authenticated, ig_service, _lock, stock_universe, ig_credentials,
                   ig_markets>>
    /\ UNCHANGED aggVars
    /\ UNCHANGED startVars

InitSelect ==
    \E rows \in SearchResults :
        /\ _initialized = TRUE
        /\ _provider_ready = [name \in Providers |-> TRUE]
        /\ _request_stats = ZeroStats
        /\ _ig_lock = NoOwner
        /\ gp = <<>>
        /\ bulk = <<>>
        /\ authenticated = TRUE
        /\ ig_service = "IGService"
        /\ _lock = NoOwner
        /\ stock_universe = {}
        /\ ig_credentials = TRUE
        /\ ig_markets = <<>>
        /\ igt = <<SelectCall(<<"a", "a", "p", "l">>, rows)>>
        /\ ServiceUp(TRUE)

NextSelect == \E t \in {1} : Select(t)

SpecSelect == InitSelect /\ [][NextSelect]_vars

\* The places of the rows that are TRADEABLE with streaming prices
Eligible(rows) ==
    {i \in 1..Len(rows) : rows[i].marketStatus = "TRADEABLE" /\ rows[i].streamingPricesAvailable}

\* The eligible places whose instrument name is the ticker up to case
EligibleExact(rows, ticker) ==
    {i \in Eligible(rows) : Lower(rows[i].instrumentName) = Lower(ticker)}

\* C33: the selection is the first eligible row named as the search term up
\* to case when there is one, otherwise the first eligible row; with no
\* eligible row nothing is selected.
C33_SelectionAmongEligible ==
    \A t \in DOMAIN igt :
        igt[t].op = "select" /\ igt[t].pc = "done"
        => LET rows == igt[t].rows
               among == IF EligibleExact(rows, igt[t].arg) # {}
                        THEN EligibleExact(rows, igt[t].arg) ELSE Eligible(rows)
           IN IF Eligible(rows) = {} THEN igt[t].result = NoneVal
              ELSE \E i \in among :
                      /\ \A j \in among : i <= j
                      /\ igt[t].result = rows[i]

\* Three rows: a closed market named as the term, a tradeable one named
\* otherwise, a tradeable one named as the term; the third was selected
C33_Witness ==
    \E t \in DOMAIN igt :
        /\ igt[t].op = "select" /\ igt[t].pc = "done"
        /\ Len(igt[t].rows) = 3
        /\ Eligible(igt[t].rows) = {2, 3}
        /\ EligibleExact(igt[t].rows, igt[t].arg) = {3}
        /\ Lower(igt[t].rows[1].instrumentName) = Lower(igt[t].arg)
        /\ igt[t].result = igt[t].rows[3]

-----------------------------------------------------------------------------
(* SpecRouting: one get_price call from the construction of the aggregator *)
(* on, with initialize and health_check running before it and between its  *)
(* awaits.                                                                 *)

InitRouting ==
    /\ _initialized = FALSE
    /\ _provider_ready = [name \in Providers |-> FALSE]
    /\ _request_stats = ZeroStats
    /\ _ig_lock = NoOwner
    /\ gp = <<IdleCall>>
    /\ bulk = <<>>
    /\ authenticated = FALSE
    /\ ig_service = "None"
    /\ _lock = NoOwner
    /\ stock_universe = {}
    /\ ig_credentials \in BOOLEAN
    /\ ig_markets = <<>>
    /\ igt = <<>>
    /\ ServiceUp(FALSE)

NextRouting ==
    \/ LifespanInitialize
    \/ HealthCheck
    \/ \E k \in {1} : GpCall(k)
    \/ \E k \in {1} : GpRespond(k)

SpecRouting == InitRouting /\ [][NextRouting]_vars


\* The attempts a call starts at provider p in a step (a provider is in a
\* list once): the call comes to await p's answer, or an attempt at the
\* broker adapter is logged
AttemptsStarted(before, after, p) ==
    IF \/ /\ after.pc = "awaiting" /\ after.providers[after.i] = p
          /\ (before.pc # "awaiting" \/ before.i # after.i)
       \/ /\ p = "ig_index"
          /\ \E j \in (Len(before.tried) + 1)..Len(after.tried) :
                after.tried[j].provider = p
    THEN 1 ELSE 0

\* C34: a step of get_price starts an attempt at a provider only if the
\* provider's ready flag is true in that step, whatever it was when the
\* list of the call was built, and the provider's request counter grows by
\* exactly the attempts started: a skipped provider counts no request.
C34_OnlyReadyProvidersAttempted ==
    [][\A k \in DOMAIN gp : \A p \in Providers :
          gp'[k] # gp[k]
          => /\ AttemptsStarted(gp[k], gp'[k], p) > 0 => _provider_ready[p]
             /\ _request_stats'.provider_stats[p].requests
                  = _request_stats.provider_stats[p].requests
                    + AttemptsStarted(gp[k], gp'[k], p)]_vars

\* A call whose list was built with both exchanges ready has ended without
\* a request to the second one, which a health_check had made not-ready
\* while the first was awaited
C34_Witness ==
    \E k \in DOMAIN gp :
        /\ gp[k].pc = "done"
        /\ gp[k].providers = <<"binance", "mexc">>
        /\ Len(gp[k].tried) = 1
        /\ gp[k].tried[1].provider = "binance"
        /\ gp[k].result = NoneVal
        /\ ~_provider_ready["mexc"]
        /\ _request_stats.provider_stats["mexc"].requests = 0

-----------------------------------------------------------------------------
(* The provider list of a call (SpecRouting).                              *)

\* The place of a price provider in the fall-back order
FallbackRank(p) == IF p = "binance" THEN 1 ELSE IF p = "mexc" THEN 2 ELSE 3

\* C35: when a call starts and no provider of its class's priority list is
\* ready, its list is the ready ones of binance, mexc, ig_index in that
\* order; the news and macro providers are in no list and get no attempt;
\* and a call that starts with no price provider ready returns None at once
\* with no attempt and no request counted.
C35_FallbackToReadyPriceProviders ==
    [][\A k \in DOMAIN gp :
          gp[k].pc = "idle" /\ gp'[k].pc # "idle"
          => LET call == gp'[k]
                 class == provider_priority(call.asset_type)
                 listed == {call.providers[i] : i \in 1..Len(call.providers)}
             IN /\ listed \cap {"finnhub", "fred"} = {}
                /\ \A i \in 1..Len(call.tried) :
                      call.tried[i].provider \notin {"finnhub", "fred"}
                /\ (\A i \in 1..Len(class) : ~_provider_ready[class[i]])
                     => /\ listed = {p \in {"binance", "mexc", "ig_index"} : _provider_ready[p]}
                        /\ \A i, j \in 1..Len(call.providers) :
                              i < j => FallbackRank(call.providers[i])
                                         < FallbackRank(call.providers[j])
                /\ (\A p \in {"binance", "mexc", "ig_index"} : ~_provider_ready[p])
                     => /\ call.pc = "done" /\ call.outcome = "returned"
                        /\ call.result = NoneVal
                        /\ call.tried = <<>>
                        /\ _request_stats'.provider_stats = _request_stats.provider_stats]_vars

\* A call for an equity symbol, its class's broker not ready, has been sent
\* to the exchanges in the fall-back order while the news provider was ready
C35_Witness ==
    \E k \in DOMAIN gp :
        /\ gp[k].asset_type = "equity" /\ gp[k].symbol = AAPL
        /\ gp[k].providers = <<"binance", "mexc">>
        /\ Len(gp[k].tried) >= 1
        /\ gp[k].tried[1].provider = "binance"
        /\ _provider_ready["finnhub"]
        /\ ~_provider_ready["ig_index"]

-----------------------------------------------------------------------------
(* The order of the classifier's rules (SpecClassify).                     *)

\* C36: the class returned is that of the first rule matched in the order
\* crypto, forex, index, commodity, where the index rule is matched by a
\* known index ticker and by every symbol beginning with '^'; a symbol
\* matching no rule is an equity.
C36_RuleOrderAndCaretIndex ==
    \A t \in DOMAIN igt :
        igt[t].op = "classify" /\ Len(igt[t].seen) >= 1
        => LET symbol_upper == RemoveChar(Upper(igt[t].arg), "$")
               expected ==
                   IF AnyIn(crypto_symbols, symbol_upper) THEN "crypto"
                   ELSE IF Len(symbol_upper) >= 6 /\ AnyIn(forex_pairs, symbol_upper)
                   THEN "forex"
                   ELSE IF AnyIn(index_symbols, symbol_upper)
                           \/ StartsWith(symbol_upper, <<"^">>)
                   THEN "index"
                   ELSE IF AnyIn(commodity_symbols, symbol_upper) THEN "commodity"
                   ELSE "equity"
           IN igt[t].seen[1] = expected

-----------------------------------------------------------------------------
(* Conservation of the request statistics (SpecLifetime).                  *)

\* No get_price is between its first line and its return, called directly
\* or as a task of a bulk call
NoGetPriceInFlight ==
    /\ \A k \in DOMAIN gp : gp[k].pc \in {"idle", "done"}
    /\ \A b \in DOMAIN bulk : \A j \in 1..Len(bulk[b].tasks) : bulk[b].tasks[j].pc = "done"

\* C37: a provider never has more successes than requests, and whenever no
\* get_price is in flight the total is the successes plus the failures and
\* the successes are the sum of the providers' successes.
C37_StatisticsConserved ==
    /\ \A p \in Providers :
          _request_stats.provider_stats[p].successes
            <= _request_stats.provider_stats[p].requests
    /\ NoGetPriceInFlight
         => /\ _request_stats.total_requests
                 = _request_stats.successful_requests + _request_stats.failed_requests
            /\ _request_stats.successful_requests
                 = _request_stats.provider_stats["binance"].successes
                   + _request_stats.provider_stats["mexc"].successes
                   + _request_stats.provider_stats["ig_index"].successes
                   + _request_stats.provider_stats["finnhub"].successes
                   + _request_stats.provider_stats["fred"].successes

\* The get_price tasks of a bulk call, which ran side by side, have all
\* ended, one with a record and one without
C37_Witness ==
    /\ NoGetPriceInFlight
    /\ \E b \in DOMAIN bulk : bulk[b].pc = "done" /\ Len(bulk[b].tasks) >= 2
    /\ _request_stats.total_requests >= 2
    /\ _request_stats.successful_requests >= 1
    /\ _request_stats.failed_requests >= 1

-----------------------------------------------------------------------------
(* health_check before initialize, and under its aggregate timeout         *)
(* (SpecReadiness).                                                        *)

\* C38: a health_check called while _initialized is false, initialize not
\* called yet or still at its gather, returns false for every provider,
\* starts no probe and changes nothing: no ready flag, no field of an adapter.
C38_HealthCheckBeforeInitialize ==
    [][(/\ ~_initialized
        /\ readiness_log' # readiness_log
        /\ readiness_log'.op \in {"health_check", "health_check_begin", "health_probes",
                                  "health_probe"})
       => /\ readiness_log'.op = "health_check"
          /\ readiness_log'.returned = [name \in Providers |-> FALSE]
          /\ hc_run' = IdleCheck
          /\ _provider_ready' = _provider_ready
          /\ ~_initialized'
          /\ UNCHANGED <<authenticated, ig_service, _lock, finnhub, _request_stats,
                         init_run>>]_vars

\* A health_check was made while initialize was at its gather, an exchange
\* having completed its self-test: every entry returned is false and the
\* exchange is ready still
C38_Witness ==
    /\ readiness_log.op = "health_check"
    /\ ~readiness_log.initialized
    /\ ~_initialized
    /\ init_run.pc = "started"
    /\ _provider_ready["binance"]
    /\ hc_run = IdleCheck

\* C39: a health_check of the initialized aggregator whose aggregate timeout
\* fired returns false for every provider and leaves every ready flag false,
\* whatever its probes had answered; and a health_check that is not timed
\* out, the one after it included, makes ready every provider whose probe
\* succeeded.
C39_TimeoutMarksAllNotReady ==
    readiness_log.op = "health_check" /\ readiness_log.initialized =>
        LET o == readiness_log.outcome
        IN /\ o.timed_out
                => /\ readiness_log.returned = [name \in Providers |-> FALSE]
                   /\ _provider_ready = [name \in Providers |-> FALSE]
           /\ ~o.timed_out
                => /\ \A name \in {"binance", "mexc"} : o.probe[name] => _provider_ready[name]
                   /\ _provider_ready["fred"]
                   /\ readiness_log.ig = "healthy" => _provider_ready["ig_index"]
                   /\ readiness_log.news /\ o.probe["finnhub"] => _provider_ready["finnhub"]

\* The aggregate timeout fired in a health_check in which the exchange's
\* probe had answered well, the broker adapter's had returned true and the
\* exchange had been ready: no provider is ready now
C39_Witness ==
    /\ readiness_log.op = "health_check"
    /\ readiness_log.initialized
    /\ readiness_log.outcome.timed_out
    /\ readiness_log.outcome.probe["binance"]
    /\ readiness_log.ig = "healthy"
    /\ readiness_log.before["binance"]
    /\ \A name \in Providers : ~_provider_ready[name]

-----------------------------------------------------------------------------
(* The session fields of the broker adapter (SpecIG).                      *)

\* C40: whenever the adapter is authenticated it holds a session object.
C40_AuthenticatedHasSession ==
    authenticated => ig_service # "None"

\* The adapter is authenticated again, on the session made after a probe
\* found the old one dead, and the search that met the dead session has been
\* answered by the broker
C40_Witness ==
    /\ authenticated
    /\ ig_service = "IGService"
    /\ \E t \in DOMAIN igt :
          /\ igt[t].probe.kind = "raise"
          /\ igt[t].probe.class = "ConnectionError"
          /\ igt[t].op = "search"
          /\ igt[t].pc = "done"
          /\ igt[t].result.kind = "list"
          /\ igt[t].result.rows # <<>>

-----------------------------------------------------------------------------
(* SpecDirectory: DatabaseService.save_discovered_symbol, the upsert of    *)
(* database_service.py.  No module of the service imports DatabaseService: *)
(* the caller is outside the running service, so the operation has a       *)
(* specification of its own.                                               *)

\* The statement of lines 374-392 and the commit of 394: a row of the
\* upper-cased symbol is inserted active; an existing row of the symbol keeps
\* its `active` and takes the new epic, display_name and asset_type
DatabaseService_save_discovered_symbol(universe, symbol, epic, display_name, asset_type) ==
    LET key == Upper(symbol)
        old == {row \in universe : row.symbol = key}
    IN (universe \ old)
       \cup (IF old = {}
             THEN {[symbol |-> key, epic |-> epic, display_name |-> display_name,
                    asset_type |-> asset_type, active |-> TRUE]}
             ELSE {[row EXCEPT !.epic = epic, !.display_name = display_name,
                               !.asset_type = asset_type] : row \in old})

\* A row of the ticker that has been switched off, under another epic
InactiveRow ==
    [symbol |-> Upper(IgTicker), epic |-> AAPL_CASH_EPIC, display_name |-> <<"A", "p", "p", "l", "e">>,
     asset_type |-> <<"s", "t", "o", "c", "k">>, active |-> FALSE]

\* A caller of the upsert, before the call
SaveCall == [IdleTask EXCEPT !.op = "save_discovered_symbol"]

\* DatabaseService.save_discovered_symbol(symbol, epic, display_name,
\* asset_type).  connected: get_connection (line 369, before the try of 372)
\* made the connection; where it did not, the error it re-raises (lines 32-34)
\* leaves the call (its text is not modelled).  committed: execute and commit
\* did not raise; otherwise the handler of 398-401 rolls back and returns
\* False, or, where conn.rollback() raises too (rolled_back false), its error
\* leaves the call.
SaveDiscoveredSymbol(t) ==
    /\ igt[t].op = "save_discovered_symbol"
    /\ igt[t].pc = "idle"
    /\ \E symbol \in {IgTicker, Upper(IgTicker)}, epic \in {AAPL_EPIC, AAPL_CASH_EPIC},
          display_name \in {<<"A", "p", "p", "l", "e", " ", "I", "n", "c">>, <<"A", "p", "p", "l", "e">>}, asset_type \in {<<"s", "t", "o", "c", "k">>, <<"i", "n", "d", "e", "x">>},
          connected, committed, rolled_back \in BOOLEAN :
         /\ stock_universe' =
               IF connected /\ committed
               THEN DatabaseService_save_discovered_symbol(stock_universe, symbol, epic,
                                                           display_name, asset_type)
               ELSE stock_universe
         /\ igt' = [igt EXCEPT ![t] =
                        [Done([igt[t] EXCEPT !.arg = symbol, !.epic = epic],
                              IF ~connected THEN Raise("OperationalError", <<>>)
                              ELSE IF committed \/ rolled_back
                              THEN [kind |-> "bool", value |-> committed]
                              ELSE Raise("Error", <<>>))
                         EXCEPT !.pc = "idle"]]
    /\ UNCHANGED <<authenticated, ig_service, _lock, ig_credentials, ig_markets>>
    /\ UNCHANGED aggVars
    /\ UNCHANGED startVars

InitDirectory ==
    \E universe \in {{}, {ResolvedRow}, {InactiveRow}} :
        /\ _initialized = TRUE
        /\ _provider_ready = AllReady
        /\ _request_stats = ZeroStats
        /\ _ig_lock = NoOwner
        /\ gp = <<>>
        /\ bulk = <<>>
        /\ authenticated = TRUE
        /\ ig_service = "IGService"
        /\ _lock = NoOwner
        /\ stock_universe = universe
        /\ ig_credentials = TRUE
        /\ ig_markets = OneMarket
        /\ igt = <<SaveCall>>
        /\ ServiceUp(TRUE)

NextDirectory == \E t \in {1} : SaveDiscoveredSymbol(t)

SpecDirectory == InitDirectory /\ [][NextDirectory]_vars

====
